---- MODULE Spec2Model ----
(***************************************************************************)
(* EduSynth slide/PDF layout engine (backend/app/services/slides).         *)
(*                                                                         *)
(* Units.  Lengths are integers in millipoints (1/1000 pt), so that        *)
(* stringWidth = (sum of glyph advances in 1/1000 em) * font_size is exact *)
(* and leading = body_fs * 1.35 is body_fs * 1350.  Page sizes are the     *)
(* reportlab A4/A5 sizes rounded to the millipoint.                        *)
(*                                                                         *)
(* Strings are sequences of glyph runs: " " is the whitespace glyph, every *)
(* other element is a run of non-space characters with a known advance.    *)
(* str.split() groups maximal runs of non-space glyphs into words.         *)
(*                                                                         *)
(* Pure functions are exercised through the variables call/args/ret:       *)
(* Init draws the arguments, one action per function applies it.           *)
(***************************************************************************)
EXTENDS Integers, Sequences, FiniteSets, TLC

VARIABLES
    call,    \* name of the function that has been applied ("" before)
    args,    \* its arguments (a record)
    ret,     \* its return value
    pc,      \* text flow state: READY, FLOWING, STOPPED_FOR_PAGE_BREAK, FINISHED
    i,       \* index of the next point of the bullet loop
    y,       \* vertical cursor of the bullet loop
    drawn,   \* what drawString has put on the page so far, in order
    prev     \* the drawString record of an earlier run on the same input

vars == <<call, args, ret, pc, i, y, drawn, prev>>

None == "None"

Max(a, b) == IF a >= b THEN a ELSE b
Min(a, b) == IF a <= b THEN a ELSE b

\* ------------------------------------------------------------------------
\* Strings and font metrics
\* ------------------------------------------------------------------------

\* reportlab's standard-font metrics (Helvetica), advance per glyph run in
\* 1/1000 em; a run's advance is the sum of its characters' advances.
HelveticaWidth(g) ==
    CASE g = "." -> 278
      [] g = " " -> 278
      [] g = "This" -> 1889
      [] g = "forms" -> 2500
      [] g = "a" -> 556
      [] g = "core" -> 1945
      [] g = "building" -> 3446
      [] g = "block" -> 2334
      [] g = "and" -> 1668
      [] g = "should" -> 2946
      [] g = "be" -> 1112
      [] g = "understood" -> 5003
      [] g = "before" -> 2835
      [] g = "moving" -> 3223
      [] g = "to" -> 834
      [] g = "advanced" -> 4336
      [] g = "patterns." -> 3891
      [] g = "Keep" -> 2335
      [] g = "practical" -> 3723
      [] g = "constraints" -> 4835
      [] g = "in" -> 778
      [] g = "mind" -> 2167
      [] g = "explicit" -> 3056
      [] g = "about" -> 2502
      [] g = "assumptions" -> 5613
      [] g = "while" -> 2278
      [] g = "reasoning." -> 4669
      [] g = "Use" -> 1778
      [] g = "small" -> 2333
      [] g = "traced" -> 2779
      [] g = "examples" -> 4279
      [] g = "validate" -> 3446
      [] g = "the" -> 1390
      [] g = "logic" -> 2056
      [] g = "avoid" -> 2390
      [] g = "hidden" -> 3002
      [] g = "edge" -> 2224
      [] g = "cases." -> 2890
      [] g = "Consider" -> 4001
      [] g = "performance" -> 5613
      [] g = "trade-offs" -> 4224
      [] g = "memory" -> 3611
      [] g = "overhead" -> 4169
      [] g = "as" -> 1056
      [] g = "inputs" -> 2668
      [] g = "scale." -> 2612
      [] g = "i" -> 222
      [] g = "W" -> 944
      [] g = "Stacks" -> 3001
      [] g = "use" -> 1612
      [] g = "LIFO" -> 2223
      [] g = "order" -> 2334
      [] g = "Queues" -> 3502
      [] g = "FIFO" -> 2278
      [] g = "Arrays" -> 2889
      [] g = "give" -> 1834
      [] g = "constant" -> 3780
      [] g = "time" -> 1889
      [] g = "indexed" -> 3502
      [] g = "access" -> 3112
      [] g = "elements" -> 4057
      [] g = "A" -> 667
      [] g = "Very" -> 2056
      [] g = "Long" -> 2224
      [] g = "Lecture" -> 3335
      [] g = "Title" -> 1889
      [] g = "That" -> 2001
      [] g = "Does" -> 2334
      [] g = "Not" -> 1556
      [] g = "Fit" -> 1111
      [] g = "on" -> 1112
      [] g = "One" -> 1890
      [] g = "Line" -> 1890
      [] g = "at" -> 834
      [] g = "Forty-Four" -> 4667
      [] g = "Points" -> 2779
      [] g = "Untitled" -> 3390
      [] g = "DYNAMIC" -> 4611
      [] g = "PROGRAMMING" -> 7778
      [] g = "MEMORY" -> 4500
      [] g = "OVERHEAD" -> 5612
      [] g = "COSTS" -> 3445
      [] g = "COST" -> 2778
      [] g = "..." -> 834
      [] g = "Understanding" -> 6503
      [] g = "Performance" -> 5724
      [] g = "Considerations" -> 6669
      [] g = "Optimization" -> 5557
      [] g = "<ell>" -> 1372
      [] g = "convolutional-neural-network-hyperparameter-optimization-benchmark" -> 31120

\* the same for Helvetica-Bold
HelveticaBoldWidth(g) ==
    CASE g = "." -> 278
      [] g = " " -> 278
      [] g = "This" -> 2056
      [] g = "forms" -> 2778
      [] g = "a" -> 556
      [] g = "core" -> 2112
      [] g = "building" -> 3889
      [] g = "block" -> 2612
      [] g = "and" -> 1778
      [] g = "should" -> 3278
      [] g = "be" -> 1167
      [] g = "understood" -> 5500
      [] g = "before" -> 3056
      [] g = "moving" -> 3556
      [] g = "to" -> 944
      [] g = "advanced" -> 4613
      [] g = "patterns." -> 4223
      [] g = "Keep" -> 2445
      [] g = "practical" -> 4113
      [] g = "constraints" -> 5390
      [] g = "in" -> 889
      [] g = "mind" -> 2389
      [] g = "explicit" -> 3446
      [] g = "about" -> 2722
      [] g = "assumptions" -> 6168
      [] g = "while" -> 2501
      [] g = "reasoning." -> 5057
      [] g = "Use" -> 1834
      [] g = "small" -> 2557
      [] g = "traced" -> 3001
      [] g = "examples" -> 4558
      [] g = "validate" -> 3724
      [] g = "the" -> 1500
      [] g = "logic" -> 2334
      [] g = "avoid" -> 2612
      [] g = "hidden" -> 3278
      [] g = "edge" -> 2334
      [] g = "cases." -> 3058
      [] g = "Consider" -> 4334
      [] g = "performance" -> 6057
      [] g = "trade-offs" -> 4611
      [] g = "memory" -> 3890
      [] g = "overhead" -> 4446
      [] g = "as" -> 1112
      [] g = "inputs" -> 3000
      [] g = "scale." -> 2780
      [] g = "i" -> 278
      [] g = "W" -> 944
      [] g = "Stacks" -> 3224
      [] g = "use" -> 1723
      [] g = "LIFO" -> 2278
      [] g = "order" -> 2556
      [] g = "Queues" -> 3668
      [] g = "FIFO" -> 2278
      [] g = "Arrays" -> 3168
      [] g = "give" -> 2001
      [] g = "constant" -> 4167
      [] g = "time" -> 2056
      [] g = "indexed" -> 3779
      [] g = "access" -> 3336
      [] g = "elements" -> 4335
      [] g = "A" -> 722
      [] g = "Very" -> 2168
      [] g = "Long" -> 2444
      [] g = "Lecture" -> 3612
      [] g = "Title" -> 2056
      [] g = "That" -> 2111
      [] g = "Does" -> 2445
      [] g = "Not" -> 1666
      [] g = "Fit" -> 1222
      [] g = "on" -> 1222
      [] g = "One" -> 1945
      [] g = "Line" -> 2056
      [] g = "at" -> 889
      [] g = "Forty-Four" -> 5055
      [] g = "Points" -> 3056
      [] g = "Untitled" -> 3722
      [] g = "DYNAMIC" -> 4666
      [] g = "PROGRAMMING" -> 7833
      [] g = "MEMORY" -> 4500
      [] g = "OVERHEAD" -> 5667
      [] g = "COSTS" -> 3445
      [] g = "COST" -> 2778
      [] g = "..." -> 834
      [] g = "Understanding" -> 7056
      [] g = "Performance" -> 6113
      [] g = "Considerations" -> 7279
      [] g = "Optimization" -> 6056
      [] g = "<ell>" -> 1392
      [] g = "convolutional-neural-network-hyperparameter-optimization-benchmark" -> 33783

GlyphWidth(font_name, g) ==
    IF font_name = "Helvetica-Bold" THEN HelveticaBoldWidth(g) ELSE HelveticaWidth(g)

RECURSIVE SumWidth(_, _)
SumWidth(font_name, s) ==
    IF s = <<>> THEN 0 ELSE GlyphWidth(font_name, Head(s)) + SumWidth(font_name, Tail(s))

\* c.stringWidth(text, font_name, font_size), in millipoints
stringWidth(text, font_name, font_size) == SumWidth(font_name, text) * font_size

IsSpace(g) == g = " "

\* str.split(): the maximal runs of non-space glyphs, in order
RECURSIVE SplitLoop(_, _, _)
SplitLoop(s, word, words) ==
    IF s = <<>> THEN (IF word # <<>> THEN Append(words, word) ELSE words)
    ELSE IF IsSpace(Head(s))
         THEN SplitLoop(Tail(s), <<>>, IF word # <<>> THEN Append(words, word) ELSE words)
         ELSE SplitLoop(Tail(s), Append(word, Head(s)), words)

split(s) == SplitLoop(s, <<>>, <<>>)

\* " ".join(words)
RECURSIVE join(_)
join(words) ==
    IF words = <<>> THEN <<>>
    ELSE IF Len(words) = 1 THEN Head(words)
    ELSE Head(words) \o <<" ">> \o join(Tail(words))

\* str.strip()
RECURSIVE lstrip(_)
lstrip(s) == IF s # <<>> /\ IsSpace(Head(s)) THEN lstrip(Tail(s)) ELSE s

RECURSIVE rstrip(_)
rstrip(s) ==
    IF s # <<>> /\ IsSpace(s[Len(s)]) THEN rstrip(SubSeq(s, 1, Len(s) - 1)) ELSE s

strip(s) == rstrip(lstrip(s))

\* ------------------------------------------------------------------------
\* Word wrapping: diagram_draw.text_wrap and pdf_enhanced._wrap_text
\* ------------------------------------------------------------------------

\* mutant of the fit test: measures the new word alone instead of the trial line
text_wrap_fits_word_only(cur, w, font_name, font_size, max_width) ==
    stringWidth(w, font_name, font_size) <= max_width \/ cur = <<>>

\* the test of diagram_draw.text_wrap: the trial line fits, or the line is empty
text_wrap_fits(cur, w, font_name, font_size, max_width) ==
    LET test == strip(join(Append(cur, w)))
    IN stringWidth(test, font_name, font_size) <= max_width \/ cur = <<>>

\* mutant of text_wrap_loop: every word is put on a line of its own
text_wrap_loop_word_per_line(words, cur, lines, font_name, font_size, max_width) ==
    [k \in 1..Len(words) |-> words[k]]

RECURSIVE text_wrap_loop(_, _, _, _, _, _)
text_wrap_loop(words, cur, lines, font_name, font_size, max_width) ==
    IF words = <<>> THEN (IF cur # <<>> THEN Append(lines, join(cur)) ELSE lines)
    ELSE LET w == Head(words)
         IN IF text_wrap_fits(cur, w, font_name, font_size, max_width)
            THEN text_wrap_loop(Tail(words), Append(cur, w), lines,
                                font_name, font_size, max_width)
            ELSE text_wrap_loop(Tail(words), <<w>>, Append(lines, join(cur)),
                                font_name, font_size, max_width)

\* mutant of text_wrap: only the first line is returned
text_wrap_first_line_only(text, font_name, font_size, max_width) ==
    LET lines == text_wrap_loop(split(text), <<>>, <<>>, font_name, font_size, max_width)
    IN SubSeq(lines, 1, Min(1, Len(lines)))

text_wrap(text, font_name, font_size, max_width) ==
    text_wrap_loop(split(text), <<>>, <<>>, font_name, font_size, max_width)

RECURSIVE _wrap_text_loop(_, _, _, _, _, _)
_wrap_text_loop(words, cur, lines, font, size, max_width) ==
    IF words = <<>> THEN (IF cur # <<>> THEN Append(lines, join(cur)) ELSE lines)
    ELSE LET w == Head(words)
             trial == strip(join(Append(cur, w)))
         IN IF stringWidth(trial, font, size) <= max_width \/ cur = <<>>
            THEN _wrap_text_loop(Tail(words), Append(cur, w), lines, font, size, max_width)
            ELSE _wrap_text_loop(Tail(words), <<w>>, Append(lines, join(cur)),
                                 font, size, max_width)

_wrap_text(text, font, size, max_width) ==
    IF text = <<>> THEN <<>>
    ELSE _wrap_text_loop(split(text), <<>>, <<>>, font, size, max_width)

\* ------------------------------------------------------------------------
\* Specification of the word-wrapping calls
\* ------------------------------------------------------------------------

MaxTextLen == 5

WrapGlyphs == {" ", "i", "W"}
WrapTexts == UNION {[1..n -> WrapGlyphs] : n \in 0..MaxTextLen}
WrapFonts == {"Helvetica", "Helvetica-Bold"}
WrapSizes == {10, 14}
WrapWidths == {8000, 15000, 30000}

NoFlow == pc = None /\ i = 0 /\ y = 0 /\ drawn = <<>> /\ prev = None

InitWrap ==
    /\ call = ""
    /\ args \in [text : WrapTexts, font_name : WrapFonts, font_size : WrapSizes,
                 max_width : WrapWidths]
    /\ ret = None
    /\ NoFlow

CallTextWrap ==
    /\ call = ""
    /\ call' = "text_wrap"
    /\ ret' = text_wrap(args.text, args.font_name, args.font_size, args.max_width)
    /\ UNCHANGED <<args, pc, i, y, drawn, prev>>

CallWrapText ==
    /\ call = ""
    /\ call' = "_wrap_text"
    /\ ret' = _wrap_text(args.text, args.font_name, args.font_size, args.max_width)
    /\ UNCHANGED <<args, pc, i, y, drawn, prev>>

NextWrap == CallTextWrap \/ CallWrapText

SpecWrap == InitWrap /\ [][NextWrap]_vars

Wrapped == call \in {"text_wrap", "_wrap_text"}

LineWidth(line) == stringWidth(line, args.font_name, args.font_size)

\* C1 (as stated): every line returned by text_wrap / _wrap_text measures at
\* most max_width in the font and size it was wrapped with.
C1_EveryLineFits ==
    Wrapped => \A k \in 1..Len(ret) : LineWidth(ret[k]) <= args.max_width

\* C1 (amended): every returned line measures at most max_width, unless the
\* line is a single word (a lone over-width word is kept on its own line).
C1_LineFitsOrSingleWord ==
    Wrapped => \A k \in 1..Len(ret) :
        LineWidth(ret[k]) <= args.max_width \/ Len(split(ret[k])) = 1

\* C1 witness: a wrap that returned several lines, one of them a multi-word
\* line that fits and one an over-width single word.
C1_Witness ==
    /\ Wrapped
    /\ \E k \in 1..Len(ret) : Len(split(ret[k])) > 1 /\ LineWidth(ret[k]) <= args.max_width
    /\ \E k \in 1..Len(ret) : LineWidth(ret[k]) > args.max_width

\* ------------------------------------------------------------------------
\* Theme tokens: theme_tokens.py
\* ------------------------------------------------------------------------

\* A hex colour "#RRGGBB" is the sequence of its hex digits' values.
pt(n) == n * 1000

_base_sizes ==
    [display |-> 46, title |-> 38, h2 |-> 28, h3 |-> 22, body |-> 14,
     caption |-> 11, code |-> 12, footer |-> 10]

\* bullet_leading is the multiplier 1.35, held in thousandths
_base_layout ==
    [safe_top |-> 64, safe_bottom |-> 48, safe_left |-> 56, safe_right |-> 56,
     title_min_size |-> 18, bullet_leading |-> 1350, para_gap_pt |-> 10,
     bullet_indent_pt |-> 20]

_base_margins == [top |-> 56, right |-> 56, bottom |-> 56, left |-> 56]

_base_fonts == [title |-> "Helvetica-Bold", body |-> "Helvetica", mono |-> "Courier"]

ThemeNames == {"minimalist", "chalkboard", "corporate"}

\* str.lower() on the names the requests carry: the mixed-case spellings map
\* to their lower-case form, a lower-case string is returned as it is
lower(s) ==
    CASE s \in {"Minimalist", "MINIMALIST"} -> "minimalist"
      [] s \in {"Chalkboard", "CHALKBOARD", "ChalkBoard"} -> "chalkboard"
      [] s \in {"Corporate", "CORPORATE"} -> "corporate"
      [] s \in {"Neon", "NEON"} -> "neon"
      [] s \in {"Desktop", "DESKTOP"} -> "desktop"
      [] s \in {"Tablet", "TABLET"} -> "tablet"
      [] s \in {"Mobile", "MOBILE"} -> "mobile"
      [] s \in {"Portrait", "PORTRAIT"} -> "portrait"
      [] s \in {"Landscape", "LANDSCAPE"} -> "landscape"
      [] s \in {"Auto", "AUTO"} -> "auto"
      [] OTHER -> s

\* mutant of theme_key: the key is compared as it was spelled
theme_key_as_spelled(key) == IF key = None \/ key = "" THEN "minimalist" ELSE key

\* get_theme's first line, (key or "minimalist").lower(): None and the empty
\* string are falsy
theme_key(key) == lower(IF key = None \/ key = "" THEN "minimalist" ELSE key)

get_theme(name) ==
    LET key == theme_key(name) IN
    IF key = "chalkboard" THEN
        [fonts |-> _base_fonts, sizes |-> _base_sizes, layout |-> _base_layout,
         margins |-> _base_margins,
         colors |-> [bg      |-> <<1, 15, 3, 13, 2, 11>>,      \* #1F3D2B
                     text    |-> <<15, 1, 15, 5, 15, 9>>,      \* #F1F5F9
                     muted   |-> <<10, 7, 11, 3, 10, 9>>,      \* #A7B3A9
                     accent  |-> <<15, 15, 13, 7, 0, 0>>,      \* #FFD700
                     accent2 |-> <<15, 15, 6, 11, 9, 13>>]]    \* #FF6B9D
    ELSE IF key = "corporate" THEN
        [fonts |-> _base_fonts, sizes |-> _base_sizes, layout |-> _base_layout,
         margins |-> _base_margins,
         colors |-> [bg      |-> <<15, 4, 15, 7, 15, 11>>,     \* #F4F7FB
                     text    |-> <<0, 15, 1, 7, 2, 10>>,       \* #0F172A
                     muted   |-> <<6, 4, 7, 4, 8, 11>>,        \* #64748B
                     accent  |-> <<2, 5, 6, 3, 14, 11>>,       \* #2563EB
                     accent2 |-> <<13, 12, 2, 6, 2, 6>>]]      \* #DC2626
    ELSE
        [fonts |-> _base_fonts, sizes |-> _base_sizes, layout |-> _base_layout,
         margins |-> _base_margins,
         colors |-> [bg      |-> <<15, 15, 15, 15, 15, 15>>,   \* #FFFFFF
                     text    |-> <<0, 11, 1, 2, 2, 0>>,        \* #0B1220
                     muted   |-> <<6, 11, 7, 2, 8, 0>>,        \* #6B7280
                     accent  |-> <<2, 5, 6, 3, 14, 11>>,       \* #2563EB
                     accent2 |-> <<1, 0, 11, 9, 8, 1>>]]       \* #10B981

BuiltinThemes == {get_theme(k) : k \in ThemeNames}

\* ------------------------------------------------------------------------
\* Page geometry
\* ------------------------------------------------------------------------

\* reportlab.lib.pagesizes, in millipoints: A4 = 210 x 297 mm, A5 = 148 x 210 mm
A4 == <<595276, 841890>>
A5 == <<419528, 595276>>

landscape(size) == <<Max(size[1], size[2]), Min(size[1], size[2])>>
portrait(size)  == <<Min(size[1], size[2]), Max(size[1], size[2])>>

DevicePresets == {"desktop", "tablet", "mobile"}
Orientations == {"auto", "portrait", "landscape"}

\* mutant of _determine_page_size: the orientation is consulted before the preset
_determine_page_size_orientation_first(plan) ==
    IF plan.orientation = "portrait" THEN portrait(A4)
    ELSE IF plan.orientation = "landscape" THEN landscape(A4)
    ELSE IF plan.device_preset = "desktop" THEN landscape(A4)
    ELSE IF plan.device_preset = "tablet" THEN portrait(A4)
    ELSE IF plan.device_preset = "mobile" THEN portrait(A5)
    ELSE landscape(A4)

\* pdf_builder._determine_page_size
_determine_page_size(plan) ==
    IF plan.device_preset = "desktop" THEN landscape(A4)
    ELSE IF plan.device_preset = "tablet" THEN portrait(A4)
    ELSE IF plan.device_preset = "mobile" THEN portrait(A5)
    ELSE LET orientation_mode ==
                 IF plan.orientation = None THEN "auto" ELSE plan.orientation
         IN IF orientation_mode = "portrait" THEN portrait(A4)
            ELSE IF orientation_mode = "landscape" THEN landscape(A4)
            ELSE IF landscape(A4)[1] > pt(720) THEN landscape(A4) ELSE portrait(A4)

\* pdf_enhanced._choose_page_size
_choose_page_size(plan) ==
    LET preset == lower(IF plan.device_preset = None THEN "" ELSE plan.device_preset)
        orientation == lower(IF plan.orientation = None THEN "auto" ELSE plan.orientation)
    IN IF preset = "desktop" THEN landscape(A4)
       ELSE IF preset = "tablet" THEN A4
       ELSE IF preset = "mobile" THEN A5
       ELSE IF orientation = "landscape" THEN landscape(A4)
       ELSE landscape(A4)

\* mutant of content_frame: the right inset is added instead of subtracted
content_frame_adds_right(page_w, page_h, theme) ==
    LET L == theme.layout
        M == theme.margins
        x == pt(Max(L.safe_left, M.left))
        yb == pt(Max(L.safe_bottom, M.bottom))
    IN [x |-> x, y |-> yb,
        w |-> page_w - x + pt(Max(L.safe_right, M.right)),
        h |-> page_h - pt(Max(L.safe_top, M.top)) - yb]

\* diagram_draw.content_frame
content_frame(page_w, page_h, theme) ==
    LET L == theme.layout
        M == theme.margins
        x == pt(Max(L.safe_left, M.left))
        yb == pt(Max(L.safe_bottom, M.bottom))
    IN [x |-> x, y |-> yb,
        w |-> page_w - x - pt(Max(L.safe_right, M.right)),
        h |-> page_h - pt(Max(L.safe_top, M.top)) - yb]

\* dict.get(key, default)
get(d, key, default) == IF key \in DOMAIN d THEN d[key] ELSE default

\* pdf_enhanced._safe_frame
_safe_frame(page_w, page_h, theme) ==
    LET margins == get(theme, "margins", <<>>)
        layout  == get(theme, "layout", <<>>)
        left   == pt(get(layout, "safe_left",   get(margins, "left",   48)))
        right  == pt(get(layout, "safe_right",  get(margins, "right",  48)))
        top    == pt(get(layout, "safe_top",    get(margins, "top",    64)))
        bottom == pt(get(layout, "safe_bottom", get(margins, "bottom", 64)))
    IN [x |-> left, y |-> bottom,
        w |-> Max(0, page_w - left - right),
        h |-> Max(0, page_h - top - bottom)]

\* ------------------------------------------------------------------------
\* Adaptive scale
\* ------------------------------------------------------------------------

\* A scale factor is the exact fraction num / den (den > 0); widths are numbers
\* (in millipoints).

\* mutant of pdf_builder._compute_scale: the upper clamp is missing
_compute_scale_no_upper(cf_w) ==
    [num |-> Max(612000, cf_w), den |-> 720000]

\* pdf_builder._compute_scale: max(0.85, min(1.15, cf_w / 720.0))
_compute_scale(cf_w) ==
    [num |-> Max(612000, Min(828000, cf_w)), den |-> 720000]

\* pdf_enhanced._compute_scale with base_w_pts = 595.0; float() of a number does
\* not raise, so the except branch (scale = 1.0) is not taken
_compute_scale_enhanced(page_w_pts) ==
    [num |-> Max(505750, Min(684250, page_w_pts)), den |-> 595000]

\* int(x) of a non-negative fraction
IntOf(n, d) == n \div d

\* round(x) of a non-negative fraction: to the nearest integer, ties to even
RoundOf(n, d) ==
    LET fl == n \div d
        r == n % d
    IN IF 2 * r < d THEN fl
       ELSE IF 2 * r > d THEN fl + 1
       ELSE IF fl % 2 = 0 THEN fl ELSE fl + 1

\* pdf_builder._apply_scale_to_theme: a deep copy with scaled sizes
_apply_scale_to_theme(theme, scale) ==
    LET sizes == theme.sizes
        scaled(v) == IntOf(v * scale.num, scale.den)
    IN [theme EXCEPT !.sizes =
           [sizes EXCEPT !.display = Max(18, scaled(sizes.display)),
                         !.title   = Max(18, scaled(sizes.title)),
                         !.h2      = Max(18, scaled(sizes.h2)),
                         !.h3      = Max(14, scaled(sizes.h3)),
                         !.body    = Max(11, scaled(sizes.body)),
                         !.footer  = Max(9, scaled(sizes.footer))]]

\* pdf_enhanced._apply_scale_to_theme: rounds every scaled size, then clamps
\* title, body and footer
_apply_scale_to_theme_enhanced(theme, scale) ==
    LET sizes == get(theme, "sizes", <<>>)
        ScaledKeys == {"display", "title", "h2", "h3", "body", "footer"}
        rounded == [k \in DOMAIN sizes |->
                       IF k \in ScaledKeys
                       THEN RoundOf(sizes[k] * scale.num, scale.den)
                       ELSE sizes[k]]
        clamped == [k \in DOMAIN rounded \cup {"title", "body", "footer"} |->
                       IF k = "title" THEN Max(get(rounded, "title", 20), 18)
                       ELSE IF k = "body" THEN Max(get(rounded, "body", 12), 11)
                       ELSE IF k = "footer" THEN Max(get(rounded, "footer", 10), 9)
                       ELSE rounded[k]]
    IN [k \in DOMAIN theme \cup {"sizes"} |-> IF k = "sizes" THEN clamped ELSE theme[k]]

\* ------------------------------------------------------------------------
\* Specification of the scale calculators
\* ------------------------------------------------------------------------

\* a theme whose sizes are smaller than the built-in ones
SmallSizes ==
    [display |-> 24, title |-> 20, h2 |-> 20, h3 |-> 16, body |-> 12,
     caption |-> 10, code |-> 10, footer |-> 10]

ScaleThemes == BuiltinThemes \cup {[get_theme("minimalist") EXCEPT !.sizes = SmallSizes]}

\* widths handed to the calculators: zero, negative, the content-frame
\* and page widths of the three presets, the baselines and beyond
ScaleWidths ==
    {0, -56000, 307528, 419528, 483276, 595000, 595276, 612000, 650000,
     720000, 729890, 841890, 1000000}

\* scale factors in [0.85, 1.15]
ScaleFactors ==
    {[num |-> n, den |-> 720000] : n \in {612000, 648000, 684000, 720000, 729890, 828000}}

InitScale ==
    /\ call = ""
    /\ args \in [width : ScaleWidths] \cup [theme : ScaleThemes, scale : ScaleFactors]
    /\ ret = None
    /\ NoFlow

CallComputeScale ==
    /\ call = ""
    /\ "width" \in DOMAIN args
    /\ call' = "pdf_builder._compute_scale"
    /\ ret' = _compute_scale(args.width)
    /\ UNCHANGED <<args, pc, i, y, drawn, prev>>

CallComputeScaleEnhanced ==
    /\ call = ""
    /\ "width" \in DOMAIN args
    /\ call' = "pdf_enhanced._compute_scale"
    /\ ret' = _compute_scale_enhanced(args.width)
    /\ UNCHANGED <<args, pc, i, y, drawn, prev>>

CallApplyScale ==
    /\ call = ""
    /\ "theme" \in DOMAIN args
    /\ call' = "pdf_builder._apply_scale_to_theme"
    /\ ret' = _apply_scale_to_theme(args.theme, args.scale)
    /\ UNCHANGED <<args, pc, i, y, drawn, prev>>

CallApplyScaleEnhanced ==
    /\ call = ""
    /\ "theme" \in DOMAIN args
    /\ call' = "pdf_enhanced._apply_scale_to_theme"
    /\ ret' = _apply_scale_to_theme_enhanced(args.theme, args.scale)
    /\ UNCHANGED <<args, pc, i, y, drawn, prev>>

NextScale ==
    \/ CallComputeScale
    \/ CallComputeScaleEnhanced
    \/ CallApplyScale
    \/ CallApplyScaleEnhanced

SpecScale == InitScale /\ [][NextScale]_vars

\* the baseline width of the calculator that was called
BaselineWidth == IF call = "pdf_builder._compute_scale" THEN 720000 ELSE 595000

ScaleComputed ==
    call \in {"pdf_builder._compute_scale", "pdf_enhanced._compute_scale"}

\* C7: for every numeric width, zero and negative ones included, both scale
\* calculators return 0.85 <= scale <= 1.15, and scale = width / baseline_width
\* whenever that quotient lies in the range.
C7_ScaleClamped ==
    ScaleComputed =>
        /\ 85 * ret.den <= 100 * ret.num
        /\ 100 * ret.num <= 115 * ret.den
        /\ (85 * BaselineWidth <= 100 * args.width /\ 100 * args.width <= 115 * BaselineWidth)
               => ret = [num |-> args.width, den |-> BaselineWidth]

\* C7 witness: a call whose quotient was above the range and was clamped to 1.15
C7_Witness ==
    /\ ScaleComputed
    /\ 100 * args.width > 115 * BaselineWidth
    /\ 100 * ret.num = 115 * ret.den

ScaleApplied ==
    call \in {"pdf_builder._apply_scale_to_theme", "pdf_enhanced._apply_scale_to_theme"}

RoleMinimum(role) ==
    CASE role = "title" -> 18 [] role = "h2" -> 18 [] role = "body" -> 11 [] role = "footer" -> 9

\* C8: both _apply_scale_to_theme produce, for each role with a documented
\* minimum, max(minimum, floor(size * scale)), so title >= 18, h2 >= 18,
\* body >= 11 and footer >= 9.
C8_ScaledSizesFlooredAndClamped ==
    ScaleApplied =>
        \A role \in {"title", "h2", "body", "footer"} :
            /\ ret.sizes[role] =
                   Max(RoleMinimum(role),
                       (args.theme.sizes[role] * args.scale.num) \div args.scale.den)
            /\ ret.sizes[role] >= RoleMinimum(role)

\* ------------------------------------------------------------------------
\* Specification of the content-frame calculators
\* ------------------------------------------------------------------------

Plans == [device_preset : DevicePresets \cup {None}, orientation : Orientations \cup {None}]

\* every page size either emitter can resolve from a plan
ResolvedPages ==
    {_determine_page_size(p) : p \in Plans} \cup {_choose_page_size(p) : p \in Plans}

\* pages smaller than, or exactly as large as, the built-in insets
SmallPages ==
    {<<0, 0>>, <<100000, 100000>>, <<112000, 120000>>, <<112000, 112000>>,
     <<595276, 100000>>, <<100000, 841890>>}

\* a caller-supplied theme whose margins are wider than the built-in ones
WideMarginTheme ==
    [get_theme("minimalist") EXCEPT
        !.margins = [top |-> 320, right |-> 320, bottom |-> 320, left |-> 320]]

FrameThemes == BuiltinThemes \cup {WideMarginTheme}

InitFrame ==
    /\ call = ""
    /\ args \in [page : ResolvedPages \cup SmallPages, theme : FrameThemes]
    /\ ret = None
    /\ NoFlow

CallContentFrame ==
    /\ call = ""
    /\ call' = "content_frame"
    /\ ret' = content_frame(args.page[1], args.page[2], args.theme)
    /\ UNCHANGED <<args, pc, i, y, drawn, prev>>

CallSafeFrame ==
    /\ call = ""
    /\ call' = "_safe_frame"
    /\ ret' = _safe_frame(args.page[1], args.page[2], args.theme)
    /\ UNCHANGED <<args, pc, i, y, drawn, prev>>

NextFrame == CallContentFrame \/ CallSafeFrame

SpecFrame == InitFrame /\ [][NextFrame]_vars

FrameComputed == call \in {"content_frame", "_safe_frame"}

\* C9: for every page size resolvable from the device presets and orientations
\* and every built-in theme, the frame computed by content_frame and by
\* _safe_frame lies inside the page and has positive width and height.
C9_FrameInsidePage ==
    (FrameComputed /\ args.page \in ResolvedPages /\ args.theme \in BuiltinThemes) =>
        /\ ret.x >= 0 /\ ret.y >= 0
        /\ ret.x + ret.w <= args.page[1]
        /\ ret.y + ret.h <= args.page[2]
        /\ ret.w > 0 /\ ret.h > 0

\* C9 witness: the frame of the smallest resolvable page (portrait A5) under a
\* built-in theme has been computed by content_frame.
C9_Witness ==
    /\ call = "content_frame"
    /\ args.page = portrait(A5)
    /\ args.theme \in BuiltinThemes
    /\ ret.w = 307528

\* ------------------------------------------------------------------------
\* Accessible colour selection: pdf_enhanced
\* ------------------------------------------------------------------------

\* _hex_to_rgb01: the three channels 0..255 of "#RGB" or "#RRGGBB" (a colour is
\* the sequence of its hex digits; the channels are later divided by 255.0)
_hex_to_rgb(hex_str) ==
    LET h == IF Len(hex_str) = 3
             THEN <<hex_str[1], hex_str[1], hex_str[2], hex_str[2], hex_str[3], hex_str[3]>>
             ELSE hex_str
    IN <<16 * h[1] + h[2], 16 * h[3] + h[4], 16 * h[5] + h[6]>>

\* srgb_to_lin(v / 255.0) for v = 0..255, in units of 1e-5:
\* c / 12.92 if c <= 0.03928 else ((c + 0.055) / 1.055) ** 2.4
srgb_to_lin_table ==
    <<
      0, 30, 61, 91, 121, 152, 182, 212, 243, 273, 304, 335, 368, 402, 439, 478,
      518, 561, 605, 651, 700, 750, 802, 857, 913, 972, 1033, 1096, 1161, 1229, 1298, 1370,
      1444, 1521, 1600, 1681, 1764, 1850, 1938, 2029, 2122, 2217, 2315, 2416, 2519, 2624, 2732, 2843,
      2956, 3071, 3190, 3310, 3434, 3560, 3689, 3820, 3955, 4092, 4231, 4374, 4519, 4667, 4817, 4971,
      5127, 5286, 5448, 5613, 5781, 5951, 6125, 6301, 6480, 6663, 6848, 7036, 7227, 7421, 7619, 7819,
      8022, 8228, 8438, 8650, 8866, 9084, 9306, 9531, 9759, 9990, 10224, 10462, 10702, 10946, 11193, 11444,
      11697, 11954, 12214, 12477, 12744, 13014, 13287, 13563, 13843, 14126, 14413, 14703, 14996, 15293, 15593, 15896,
      16203, 16513, 16827, 17144, 17465, 17789, 18116, 18447, 18782, 19120, 19462, 19807, 20156, 20508, 20864, 21223,
      21586, 21953, 22323, 22697, 23074, 23455, 23840, 24228, 24620, 25016, 25415, 25818, 26225, 26636, 27050, 27468,
      27889, 28315, 28744, 29177, 29614, 30054, 30499, 30947, 31399, 31855, 32314, 32778, 33245, 33716, 34191, 34670,
      35153, 35640, 36131, 36625, 37124, 37626, 38133, 38643, 39157, 39676, 40198, 40724, 41254, 41789, 42327, 42869,
      43415, 43966, 44520, 45079, 45641, 46208, 46778, 47353, 47932, 48515, 49102, 49693, 50289, 50888, 51492, 52100,
      52712, 53328, 53948, 54572, 55201, 55834, 56471, 57112, 57758, 58408, 59062, 59720, 60383, 61050, 61721, 62396,
      63076, 63760, 64448, 65141, 65837, 66539, 67244, 67954, 68669, 69387, 70110, 70838, 71569, 72306, 73046, 73791,
      74540, 75294, 76052, 76815, 77582, 78354, 79130, 79910, 80695, 81485, 82279, 83077, 83880, 84687, 85499, 86316,
      87137, 87962, 88792, 89627, 90466, 91310, 92158, 93011, 93869, 94731, 95597, 96469, 97345, 98225, 99110, 100000
    >>

srgb_to_lin(v) == srgb_to_lin_table[v + 1]

\* _luminance, in units of 1e-4 (0 .. 10000)
_luminance(hex_str) ==
    LET rgb == _hex_to_rgb(hex_str)
    IN (2126 * srgb_to_lin(rgb[1]) + 7152 * srgb_to_lin(rgb[2])
        + 722 * srgb_to_lin(rgb[3])) \div 100000

\* _contrast_ratio: the fraction (L1 + 0.05) / (L2 + 0.05) with L1 the lighter
_contrast_ratio(fg_hex, bg_hex) ==
    LET La == _luminance(fg_hex)
        Lb == _luminance(bg_hex)
        L1 == IF La < Lb THEN Lb ELSE La
        L2 == IF La < Lb THEN La ELSE Lb
    IN [n |-> L1 + 500, d |-> L2 + 500]

\* comparisons of contrast ratios; min_ratio is held in tenths
RatioGE(a, b) == a.n * b.d >= b.n * a.d
RatioMeets(a, min_ratio) == 10 * a.n >= min_ratio * a.d

\* mutant of _accessible_text_color: when only one candidate passes, the
\* other one is returned
_accessible_text_color_swapped(bg_hex, light, dark, min_ratio) ==
    LET cr_light == _contrast_ratio(light, bg_hex)
        cr_dark  == _contrast_ratio(dark, bg_hex)
    IN IF RatioMeets(cr_light, min_ratio) /\ RatioMeets(cr_dark, min_ratio)
       THEN (IF RatioGE(cr_light, cr_dark) THEN light ELSE dark)
       ELSE IF RatioMeets(cr_light, min_ratio) THEN dark
       ELSE IF RatioMeets(cr_dark, min_ratio) THEN light
       ELSE (IF RatioGE(cr_light, cr_dark) THEN light ELSE dark)

\* pdf_enhanced._accessible_text_color
_accessible_text_color(bg_hex, light, dark, min_ratio) ==
    LET cr_light == _contrast_ratio(light, bg_hex)
        cr_dark  == _contrast_ratio(dark, bg_hex)
    IN IF RatioMeets(cr_light, min_ratio) /\ RatioMeets(cr_dark, min_ratio)
       THEN (IF RatioGE(cr_light, cr_dark) THEN light ELSE dark)
       ELSE IF RatioMeets(cr_light, min_ratio) THEN light
       ELSE IF RatioMeets(cr_dark, min_ratio) THEN dark
       ELSE (IF RatioGE(cr_light, cr_dark) THEN light ELSE dark)

\* ------------------------------------------------------------------------
\* Specification of the colour selector
\* ------------------------------------------------------------------------

White == <<15, 15, 15, 15, 15, 15>>

\* backgrounds: the theme backgrounds and accents, mid greys, "#000"
Backgrounds ==
    {get_theme(k).colors.bg : k \in ThemeNames}
    \cup {get_theme(k).colors.accent : k \in ThemeNames}
    \cup {<<7, 7, 7, 7, 7, 7>>, <<8, 8, 8, 8, 8, 8>>, <<0, 0, 0>>}

\* light candidates: "#FFFFFF" (the default), "#FFF", "#F1F5F9", "#CCCCCC"
LightCandidates ==
    {White, <<15, 15, 15>>, <<15, 1, 15, 5, 15, 9>>, <<12, 12, 12, 12, 12, 12>>}

\* dark candidates: "#111111" (the default), "#000", "#0B1220", "#444444"
DarkCandidates ==
    {<<1, 1, 1, 1, 1, 1>>, <<0, 0, 0>>, <<0, 11, 1, 2, 2, 0>>, <<4, 4, 4, 4, 4, 4>>}

\* min_ratio in tenths: 3.0, 4.5 (the default), 7.0, 21.0
MinRatios == {30, 45, 70, 210}

InitColor ==
    /\ call = ""
    /\ args \in [bg_hex : Backgrounds, light : LightCandidates, dark : DarkCandidates,
                 min_ratio : MinRatios]
    /\ ret = None
    /\ NoFlow

CallAccessibleTextColor ==
    /\ call = ""
    /\ call' = "_accessible_text_color"
    /\ ret' = _accessible_text_color(args.bg_hex, args.light, args.dark, args.min_ratio)
    /\ UNCHANGED <<args, pc, i, y, drawn, prev>>

NextColor == CallAccessibleTextColor

SpecColor == InitColor /\ [][NextColor]_vars

LightRatio == _contrast_ratio(args.light, args.bg_hex)
DarkRatio == _contrast_ratio(args.dark, args.bg_hex)
LightPasses == RatioMeets(LightRatio, args.min_ratio)
DarkPasses == RatioMeets(DarkRatio, args.min_ratio)
OtherCandidate == IF ret = args.light THEN args.dark ELSE args.light

\* C6: _accessible_text_color returns one of the two candidates; the one that
\* meets min_ratio when exactly one does, and otherwise (both or neither) the
\* one with the higher ratio, so the returned ratio is below min_ratio only
\* when neither candidate qualifies.
C6_AccessibleChoice ==
    call = "_accessible_text_color" =>
        /\ ret \in {args.light, args.dark}
        /\ (LightPasses /\ ~DarkPasses) => ret = args.light
        /\ (DarkPasses /\ ~LightPasses) => ret = args.dark
        /\ (LightPasses = DarkPasses) =>
               RatioGE(_contrast_ratio(ret, args.bg_hex),
                       _contrast_ratio(OtherCandidate, args.bg_hex))
        /\ ~RatioMeets(_contrast_ratio(ret, args.bg_hex), args.min_ratio)
               => (~LightPasses /\ ~DarkPasses)

\* C6 witness: neither candidate reaches min_ratio and the dark candidate,
\* which has the higher ratio, was returned (the documented fallback).
C6_Witness ==
    /\ call = "_accessible_text_color"
    /\ ~LightPasses /\ ~DarkPasses
    /\ ret = args.dark /\ args.dark # args.light
    /\ ~RatioGE(LightRatio, DarkRatio)

\* ------------------------------------------------------------------------
\* Radial layout: diagram_draw.layout_radial
\* ------------------------------------------------------------------------

\* Radial coordinates are integers in decipoints (1/10 pt); products and
\* quotients are rounded to the nearest decipoint.

\* round(a / b) for b > 0
RoundDiv(a, b) == (2 * a + b) \div (2 * b)

RECURSIVE IsqrtIter(_, _)
IsqrtIter(n, x) ==
    LET nx == (x + n \div x) \div 2
    IN IF nx >= x THEN x ELSE IsqrtIter(n, nx)

\* floor of the square root
Isqrt(n) == IF n = 0 THEN 0 ELSE IsqrtIter(n, n)

\* math.hypot
hypot(dx, dy) == Isqrt(dx * dx + dy * dy)

\* <<cos, sin>> of base[i] = 2*pi*i/n - pi/2, times 10000, for n = 1..10 and
\* i = 0..n-1
base_angle_table ==
    <<
      <<<<0, -10000>>>>,
      <<<<0, -10000>>, <<0, 10000>>>>,
      <<<<0, -10000>>, <<8660, 5000>>, <<-8660, 5000>>>>,
      <<<<0, -10000>>, <<10000, 0>>, <<0, 10000>>, <<-10000, 0>>>>,
      <<<<0, -10000>>, <<9511, -3090>>, <<5878, 8090>>, <<-5878, 8090>>, <<-9511, -3090>>>>,
      <<<<0, -10000>>, <<8660, -5000>>, <<8660, 5000>>, <<0, 10000>>, <<-8660, 5000>>, <<-8660, -5000>>>>,
      <<<<0, -10000>>, <<7818, -6235>>, <<9749, 2225>>, <<4339, 9010>>, <<-4339, 9010>>, <<-9749, 2225>>, <<-7818, -6235>>>>,
      <<<<0, -10000>>, <<7071, -7071>>, <<10000, 0>>, <<7071, 7071>>, <<0, 10000>>, <<-7071, 7071>>, <<-10000, 0>>, <<-7071, -7071>>>>,
      <<<<0, -10000>>, <<6428, -7660>>, <<9848, -1736>>, <<8660, 5000>>, <<3420, 9397>>, <<-3420, 9397>>, <<-8660, 5000>>, <<-9848, -1736>>, <<-6428, -7660>>>>,
      <<<<0, -10000>>, <<5878, -8090>>, <<9511, -3090>>, <<9511, 3090>>, <<5878, 8090>>, <<0, 10000>>, <<-5878, 8090>>, <<-9511, 3090>>, <<-9511, -3090>>, <<-5878, -8090>>>>
    >>

\* line 46-49: the starting point of node i (1-based) of n on the circle
initial_coord(nodes, radius, idx) ==
    LET n == Max(1, Len(nodes))
        cs == base_angle_table[n][idx]
    IN [x |-> RoundDiv(radius * 10 * cs[1], 10000),
        y |-> RoundDiv(radius * 10 * cs[2], 10000),
        theta |-> <<idx - 1, n>>,
        w |-> nodes[idx].width, h |-> nodes[idx].height]

\* r = max(w, h) * 0.6, in decipoints
node_radius(c) == Max(c.w, c.h) * 6

\* the gutter of line 61 (12 pt), in decipoints
gutter == 120

\* mutant of push_pair: node j is pushed towards node i instead of away from it
push_pair_towards(coords, idx, jdx, xi, yi) ==
    LET cj == coords[jdx]
        dx == cj.x - xi
        dy == cj.y - yi
        h == hypot(dx, dy)
        dist == IF h = 0 THEN 10 ELSE h
        min_d == node_radius(coords[idx]) + node_radius(cj) + gutter
    IN IF dist < min_d
       THEN LET px == RoundDiv(dx * (min_d - dist), 2 * dist)
                py == RoundDiv(dy * (min_d - dist), 2 * dist)
            IN [coords EXCEPT ![idx].x = @ - px, ![idx].y = @ - py,
                              ![jdx].x = @ - px, ![jdx].y = @ - py]
       ELSE coords

\* lines 57-68: one pair (i, j); xi, yi are the values read at line 54, before
\* the inner loop, while node j is read afresh
push_pair(coords, idx, jdx, xi, yi) ==
    LET cj == coords[jdx]
        dx == cj.x - xi
        dy == cj.y - yi
        h == hypot(dx, dy)
        dist == IF h = 0 THEN 10 ELSE h
        min_d == node_radius(coords[idx]) + node_radius(cj) + gutter
    IN IF dist < min_d
       THEN LET px == RoundDiv(dx * (min_d - dist), 2 * dist)
                py == RoundDiv(dy * (min_d - dist), 2 * dist)
            IN [coords EXCEPT ![idx].x = @ - px, ![idx].y = @ - py,
                              ![jdx].x = @ + px, ![jdx].y = @ + py]
       ELSE coords

\* lines 56-68: for j in range(i+1, n)
RECURSIVE relax_inner(_, _, _, _, _)
relax_inner(coords, idx, jdx, xi, yi) ==
    IF jdx > Len(coords) THEN coords
    ELSE relax_inner(push_pair(coords, idx, jdx, xi, yi), idx, jdx + 1, xi, yi)

\* lines 53-68: for i in range(n)
RECURSIVE relax_pass(_, _)
relax_pass(coords, idx) ==
    IF idx > Len(coords) THEN coords
    ELSE relax_pass(relax_inner(coords, idx, idx + 1, coords[idx].x, coords[idx].y),
                    idx + 1)

\* lines 52-68: for _ in range(relax_iters)
RECURSIVE relax(_, _)
relax(coords, iters) ==
    IF iters = 0 THEN coords ELSE relax(relax_pass(coords, 1), iters - 1)

relax_iters == 4

layout_radial(nodes, radius) ==
    LET n == Max(1, Len(nodes))
        coords == [k \in 1..n |-> initial_coord(nodes, radius, k)]
        relaxed == relax(coords, relax_iters)
    IN [k \in 1..n |-> [x |-> relaxed[k].x, y |-> relaxed[k].y, theta |-> relaxed[k].theta]]

\* ------------------------------------------------------------------------
\* Specification of the radial layout
\* ------------------------------------------------------------------------

MaxNodes == 8

\* node boxes (width, height) in points
NodeSizes == {[width |-> 120, height |-> 40], [width |-> 200, height |-> 48],
              [width |-> 60, height |-> 30]}

\* node lists of 1..MaxNodes nodes, two box sizes alternating
RadialNodeLists ==
    {[k \in 1..n |-> IF k % 2 = 1 THEN a ELSE b] : n \in 1..MaxNodes, a \in NodeSizes,
                                                     b \in NodeSizes}

\* radii in points; 166 pt is 35% of the smaller side of the landscape A4 frame
Radii == {60, 100, 166, 250}

InitRadial ==
    /\ call = ""
    /\ args \in [nodes : RadialNodeLists, radius : Radii]
    /\ ret = None
    /\ NoFlow

CallLayoutRadial ==
    /\ call = ""
    /\ call' = "layout_radial"
    /\ ret' = layout_radial(args.nodes, args.radius)
    /\ UNCHANGED <<args, pc, i, y, drawn, prev>>

NextRadial == CallLayoutRadial

SpecRadial == InitRadial /\ [][NextRadial]_vars

\* the result marks node k force-placed
MarkedForcePlaced(k) == "force_placed" \in DOMAIN ret[k] /\ ret[k].force_placed

\* r_i + r_j + gutter for the nodes i, j of the call, in decipoints
MinDistance(a, b) ==
    Max(args.nodes[a].width, args.nodes[a].height) * 6
    + Max(args.nodes[b].width, args.nodes[b].height) * 6 + gutter

\* squared distance of two returned centers
DistanceSq(a, b) ==
    (ret[a].x - ret[b].x) * (ret[a].x - ret[b].x)
    + (ret[a].y - ret[b].y) * (ret[a].y - ret[b].y)

\* C2: after the relaxation passes every pair of returned centers is at least
\* r_i + r_j + gutter apart, or one of the two nodes is marked force-placed in
\* the result.  (Stated with 5 pt of slack, more than the rounding of the
\* decipoint arithmetic.)
C2_NoOverlapOrForcePlaced ==
    call = "layout_radial" =>
        \A a, b \in 1..Len(ret) :
            a < b =>
                \/ DistanceSq(a, b) >= (MinDistance(a, b) - 50) * (MinDistance(a, b) - 50)
                \/ MarkedForcePlaced(a)
                \/ MarkedForcePlaced(b)

\* ------------------------------------------------------------------------
\* Notes pages: pdf_builder.draw_notes_page and _draw_bulleted_paragraphs
\* ------------------------------------------------------------------------

\* the four sentences _expand_point appends to a point
Variant1 ==
    <<".", " ", "This", " ", "forms", " ", "a", " ", "core", " ", "building", " ",
      "block", " ", "and", " ", "should", " ", "be", " ", "understood", " ",
      "before", " ", "moving", " ", "to", " ", "advanced", " ", "patterns.">>
Variant2 ==
    <<".", " ", "Keep", " ", "practical", " ", "constraints", " ", "in", " ", "mind",
      " ", "and", " ", "be", " ", "explicit", " ", "about", " ", "assumptions", " ",
      "while", " ", "reasoning.">>
Variant3 ==
    <<".", " ", "Use", " ", "small", " ", "traced", " ", "examples", " ", "to", " ",
      "validate", " ", "the", " ", "logic", " ", "and", " ", "avoid", " ", "hidden",
      " ", "edge", " ", "cases.">>
Variant4 ==
    <<".", " ", "Consider", " ", "performance", " ", "trade-offs", " ", "and", " ",
      "memory", " ", "overhead", " ", "as", " ", "inputs", " ", "scale.">>

variants(point) ==
    <<point \o Variant1, point \o Variant2, point \o Variant3, point \o Variant4>>

\* what random.choice can return for a list of four
Choices == 1..4

\* pdf_builder._expand_point; choice is the index random.choice picks
_expand_point(point, choice) == variants(point)[choice]

\* pdf_builder.draw_title_in_band: the value it returns (the title strings it
\* draws inside the band do not move the cursor)
draw_title_in_band(band_top, band_height) == band_top - band_height

\* mutant of min_y: the fixed clearance above the footer is left out
min_y_no_clearance(layout) == pt(layout.safe_bottom)

\* the boundary the bullet loop tests before each item
min_y(layout) == pt(layout.safe_bottom + 36)

\* build_pdf's preparation: page size, content frame, scale, scaled theme
theme_local(plan, theme) ==
    LET page == _determine_page_size(plan)
        cf == content_frame(page[1], page[2], theme)
    IN _apply_scale_to_theme(theme, _compute_scale(cf.w))

\* draw_notes_page up to its call of _draw_bulleted_paragraphs: the
\* arguments x, y_top and max_w it passes
bullet_region(plan, theme, page_w, page_h) ==
    LET cf == content_frame(page_w, page_h, theme)
        band_h == IF plan.theme = "chalkboard" THEN 72 ELSE 64
        band_top == page_h - pt(theme.layout.safe_top) \div 2
        title_bottom == draw_title_in_band(band_top, pt(band_h))
    IN [x |-> cf.x,
        y_top |-> Min(title_bottom - pt(10), cf.y + cf.h - pt(20)),
        max_w |-> cf.w]

\* one pass of the loop body for point p with the cursor at y0: the
\* drawString calls (at most four lines) and the cursor afterwards
draw_item(x, y0, max_w, p, idx, theme, choice) ==
    LET body_fs == theme.sizes.body
        leading == body_fs * theme.layout.bullet_leading
        para_gap == pt(theme.layout.para_gap_pt)
        indent == pt(theme.layout.bullet_indent_pt)
        expanded == _expand_point(p, choice)
        lines == text_wrap(expanded, theme.fonts.body, body_fs, max_w - indent - pt(6))
        shown == SubSeq(lines, 1, Min(4, Len(lines)))
    IN [strings |-> [k \in 1..Len(shown) |->
                        [item |-> idx, x |-> x + indent,
                         y |-> y0 - (k - 1) * leading, text |-> shown[k]]],
        y |-> y0 - Len(shown) * leading - para_gap]

\* the whole loop, for a given outcome of each random.choice
RECURSIVE bullet_loop(_, _, _, _, _, _, _, _)
bullet_loop(x, y0, max_w, points, idx, theme, choices, out) ==
    IF idx > Len(points) THEN out
    ELSE IF y0 < min_y(theme.layout) THEN out
    ELSE LET it == draw_item(x, y0, max_w, points[idx], idx, theme, choices[idx])
         IN bullet_loop(x, it.y, max_w, points, idx + 1, theme, choices,
                        out \o it.strings)

_draw_bulleted_paragraphs(x, y_top, max_w, points, theme, choices) ==
    bullet_loop(x, y_top, max_w, points, 1, theme, choices, <<>>)

\* the strings a notes page carries under its title band
draw_notes_page(slide, plan, theme, page_w, page_h, choices) ==
    LET r == bullet_region(plan, theme, page_w, page_h)
    IN _draw_bulleted_paragraphs(r.x, r.y_top, r.max_w, slide.points, theme, choices)

\* ------------------------------------------------------------------------
\* Specification of the text flow of one notes page, one loop pass per step
\* READY -> FLOWING -> {STOPPED_FOR_PAGE_BREAK | FINISHED}
\* ------------------------------------------------------------------------

PointStacks == <<"Stacks", " ", "use", " ", "LIFO", " ", "order">>
PointQueues == <<"Queues", " ", "use", " ", "FIFO", " ", "order">>
PointArrays ==
    <<"Arrays", " ", "give", " ", "constant", " ", "time", " ", "indexed", " ",
      "access", " ", "to", " ", "elements", " ", "and", " ", "avoid", " ", "memory",
      " ", "overhead">>

\* number of points of the long slide (the schema allows up to 8)
LongSlidePoints == 7

ShortSlides == {[points |-> <<PointStacks>>], [points |-> <<PointStacks, PointQueues>>]}
LongSlide == [points |-> [k \in 1..LongSlidePoints |-> PointArrays]]

\* a point with a word wider than a line of the phone page
PointWide ==
    <<"Use", " ", "convolutional-neural-network-hyperparameter-optimization-benchmark",
      " ", "order">>
WideSlide == [points |-> <<PointWide, PointStacks>>]

\* the requests of the flow: short slides on every preset and theme, the long
\* slide and the wide word on the phone page
FlowPlans ==
    [device_preset : DevicePresets \cup {None}, orientation : {None, "portrait"},
     theme : ThemeNames, slides : {<<s>> : s \in ShortSlides}]
    \cup [device_preset : {"mobile"}, orientation : {None}, theme : {"minimalist"},
          slides : {<<LongSlide>>, <<WideSlide>>}]

\* the page, the scaled theme and the slide the flow works on
FlowPage == _determine_page_size(args)
FlowTheme == theme_local(args, get_theme(args.theme))
FlowSlide == args.slides[1]
FlowRegion == bullet_region(args, FlowTheme, FlowPage[1], FlowPage[2])

InitFlow ==
    /\ call = ""
    /\ args \in FlowPlans
    /\ ret = None
    /\ pc = "READY"
    /\ i = 0
    /\ y = 0
    /\ drawn = <<>>
    /\ prev = None

\* draw_notes_page calls _draw_bulleted_paragraphs: the cursor starts at y_top
EnterBulletLoop ==
    /\ pc = "READY"
    /\ pc' = "FLOWING"
    /\ i' = 1
    /\ y' = FlowRegion.y_top
    /\ drawn' = <<>>
    /\ UNCHANGED <<call, args, ret, prev>>

\* a loop pass that draws: the cursor is not below min_y
DrawItem ==
    /\ pc = "FLOWING"
    /\ i <= Len(FlowSlide.points)
    /\ ~(y < min_y(FlowTheme.layout))
    /\ \E choice \in Choices :
          \E it \in {draw_item(FlowRegion.x, y, FlowRegion.max_w, FlowSlide.points[i],
                                i, FlowTheme, choice)} :
             /\ drawn' = drawn \o it.strings
             /\ y' = it.y
    /\ i' = i + 1
    /\ UNCHANGED <<call, args, ret, pc, prev>>

\* a loop pass that breaks: the cursor is below min_y
StopForPageBreak ==
    /\ pc = "FLOWING"
    /\ i <= Len(FlowSlide.points)
    /\ y < min_y(FlowTheme.layout)
    /\ pc' = "STOPPED_FOR_PAGE_BREAK"
    /\ UNCHANGED <<call, args, ret, i, y, drawn, prev>>

\* mutant of FinishBulletLoop: the loop may be left before the points run out
FinishBulletLoop_early ==
    /\ pc = "FLOWING"
    /\ pc' = "FINISHED"
    /\ UNCHANGED <<call, args, ret, i, y, drawn, prev>>

\* the loop runs out of points
FinishBulletLoop ==
    /\ pc = "FLOWING"
    /\ i > Len(FlowSlide.points)
    /\ pc' = "FINISHED"
    /\ UNCHANGED <<call, args, ret, i, y, drawn, prev>>

NextFlow == EnterBulletLoop \/ DrawItem \/ StopForPageBreak \/ FinishBulletLoop

SpecFlow == InitFlow /\ [][NextFlow]_vars

\* the boundary the specification names: safe_bottom + 36 pt of the page's theme
BulletFloor == pt(FlowTheme.layout.safe_bottom + 36)

ItemsDrawn == {drawn[k].item : k \in 1..Len(drawn)}

\* the cursor at which an item was started: the y of its first string
ItemStartY(n) ==
    LET first == CHOOSE k \in 1..Len(drawn) :
                    /\ drawn[k].item = n
                    /\ \A m \in 1..Len(drawn) : drawn[m].item = n => k <= m
    IN drawn[first].y

\* C3: an item is drawn only when the cursor before it is at or above
\* safe_bottom + 36; the flow stops at the first item that finds the cursor
\* below it, drawing neither that item nor a later one, so the items on the
\* page are always a prefix of the slide's points.
C3_DrawnItemsArePrefix ==
    pc \in {"FLOWING", "STOPPED_FOR_PAGE_BREAK", "FINISHED"} =>
        /\ ItemsDrawn = 1..(i - 1)
        /\ \A n \in ItemsDrawn : ItemStartY(n) >= BulletFloor
        /\ \A k \in 1..(Len(drawn) - 1) : drawn[k].item <= drawn[k + 1].item
        /\ pc = "STOPPED_FOR_PAGE_BREAK" =>
              /\ i <= Len(FlowSlide.points)
              /\ y < BulletFloor
              /\ \A n \in ItemsDrawn : n < i
        /\ pc = "FINISHED" => ItemsDrawn = 1..Len(FlowSlide.points)

\* the flow stopped in the middle of the slide, with items already on the page
C3_Witness ==
    /\ pc = "STOPPED_FOR_PAGE_BREAK"
    /\ drawn # <<>>
    /\ i <= Len(FlowSlide.points)
    /\ ItemsDrawn = 1..(i - 1)

\* C4: no bullet text line is drawn below safe_bottom + 36, so bullet text
\* never reaches the footer band.
C4_NoLineBelowFloor ==
    \A k \in 1..Len(drawn) : drawn[k].y >= BulletFloor

\* ------------------------------------------------------------------------
\* pdf_builder.build_pdf
\* ------------------------------------------------------------------------

\* The document build_pdf writes, for a given outcome of each random.choice
\* (choices[s][j] is the draw for point j of slide s): the page size, and per
\* page its kind, its folio and the bullet strings of a notes page.  The
\* function has no raise statement; raised records that it returns normally.
\* mutant of notes_folio: the two front pages are always counted
notes_folio_always_offset(idx, notes_only) == 2 + idx

\* the page_index passed to draw_footer for the notes page of slide idx
notes_folio(idx, notes_only) == IF ~notes_only THEN 2 + idx ELSE idx

build_pdf(plan, theme, cheatsheet_only, notes_only, choices) ==
    LET page == _determine_page_size(plan)
        tl == theme_local(plan, theme)
        total_pages == (IF ~notes_only THEN 2 ELSE 0)
                       + (IF cheatsheet_only THEN 0 ELSE Len(plan.slides))
        front ==
            IF ~notes_only
            THEN <<[kind |-> "title_splash", page_index |-> 1,
                    total_pages |-> total_pages, strings |-> <<>>],
                   [kind |-> "flowchart", page_index |-> 2,
                    total_pages |-> total_pages, strings |-> <<>>]>>
            ELSE <<>>
        notes ==
            IF ~cheatsheet_only
            THEN [s \in 1..Len(plan.slides) |->
                     [kind |-> "notes",
                      page_index |-> notes_folio(s, notes_only),
                      total_pages |-> total_pages,
                      strings |-> draw_notes_page(plan.slides[s], plan, tl,
                                                  page[1], page[2], choices[s])]]
            ELSE <<>>
    IN [raised |-> None, pagesize |-> page, pages |-> front \o notes]

\* ------------------------------------------------------------------------
\* Specification of build_pdf, called once and then again on the same input
\* ------------------------------------------------------------------------

BuildPlans ==
    [device_preset : {"desktop", "mobile", None}, orientation : {None},
     theme : {"minimalist", "chalkboard"},
     slides : {<<s>> : s \in ShortSlides} \cup {<<[points |-> <<PointStacks>>],
                                                 [points |-> <<PointQueues>>]>>}]

\* the theme the router passes (get_theme(plan.theme)) or a caller's own
BuildInputs ==
    {[plan |-> p, theme |-> t, cheatsheet_only |-> c, notes_only |-> n] :
        p \in BuildPlans, t \in {WideMarginTheme}, c \in BOOLEAN, n \in BOOLEAN}
    \cup {[plan |-> p, theme |-> get_theme(p.theme), cheatsheet_only |-> c,
           notes_only |-> n] : p \in BuildPlans, c \in BOOLEAN, n \in BOOLEAN}

\* SlideItem.points holds at most this many points
max_items == 8

\* the outcomes of the random draws of one run: one per point of every slide
ChoiceOutcomes(plan) ==
    LET widest == CHOOSE n \in 1..max_items :
                     /\ \E s \in 1..Len(plan.slides) : Len(plan.slides[s].points) = n
                     /\ \A s \in 1..Len(plan.slides) : Len(plan.slides[s].points) <= n
    IN [1..Len(plan.slides) -> [1..widest -> Choices]]

InitBuild ==
    /\ call = ""
    /\ args \in BuildInputs
    /\ ret = None
    /\ NoFlow

CallBuildPdf ==
    /\ call = ""
    /\ call' = "build_pdf"
    /\ \E choices \in ChoiceOutcomes(args.plan) :
          ret' = build_pdf(args.plan, args.theme, args.cheatsheet_only,
                           args.notes_only, choices)
    /\ UNCHANGED <<args, pc, i, y, drawn, prev>>

\* a second, independent run on the same arguments; prev keeps the first document
CallBuildPdfAgain ==
    /\ call = "build_pdf"
    /\ call' = "build_pdf again"
    /\ prev' = ret
    /\ \E choices \in ChoiceOutcomes(args.plan) :
          ret' = build_pdf(args.plan, args.theme, args.cheatsheet_only,
                           args.notes_only, choices)
    /\ UNCHANGED <<args, pc, i, y, drawn>>

NextBuild == CallBuildPdf \/ CallBuildPdfAgain

SpecBuild == InitBuild /\ [][NextBuild]_vars

\* the wrapped lines of a page, and the number of bullet items placed on it
LinesOf(page) == {page.strings[k].text : k \in 1..Len(page.strings)}
ItemsPlaced(page) == Cardinality({page.strings[k].item : k \in 1..Len(page.strings)})

\* C5: two independent runs of build_pdf on the same input produce the same
\* wrapped lines and place the same number of bullet items on every notes page.
C5_RunsAgree ==
    call = "build_pdf again" =>
        /\ Len(ret.pages) = Len(prev.pages)
        /\ \A p \in 1..Len(ret.pages) :
              /\ LinesOf(ret.pages[p]) = LinesOf(prev.pages[p])
              /\ ItemsPlaced(ret.pages[p]) = ItemsPlaced(prev.pages[p])

\* the page is too small for the insets of the theme
PageTooSmall ==
    LET L == args.theme.layout
        M == args.theme.margins
        page == _determine_page_size(args.plan)
    IN \/ page[1] <= pt(Max(L.safe_left, M.left) + Max(L.safe_right, M.right))
       \/ page[2] <= pt(Max(L.safe_top, M.top) + Max(L.safe_bottom, M.bottom))

BuildFrame ==
    content_frame(_determine_page_size(args.plan)[1], _determine_page_size(args.plan)[2],
                  args.theme)

\* C10: when the page is too small for the insets, the content frame clamps
\* to a zero size (never negative) and build_pdf rejects the request with a
\* fatal input error instead of drawing any page.
C10_TooSmallPageRejected ==
    call = "build_pdf" /\ PageTooSmall =>
        /\ BuildFrame.w >= 0
        /\ BuildFrame.h >= 0
        /\ ret.raised # None
        /\ ret.pages = <<>>

\* ------------------------------------------------------------------------
\* Specification of request resolution: the page size and the theme of a plan
\* ------------------------------------------------------------------------

\* theme names a request may carry: the fixed names in several spellings,
\* unknown names, the empty string and None
ThemeKeys ==
    {"minimalist", "Minimalist", "MINIMALIST", "chalkboard", "Chalkboard",
     "CHALKBOARD", "corporate", "Corporate", "CORPORATE", "neon", "NEON", "", None}

RequestPlans ==
    [device_preset : DevicePresets \cup {None}, orientation : Orientations \cup {None},
     theme : ThemeKeys]

InitRequest ==
    /\ call = ""
    /\ args \in RequestPlans
    /\ ret = None
    /\ NoFlow

CallDeterminePageSize ==
    /\ call = ""
    /\ call' = "_determine_page_size"
    /\ ret' = _determine_page_size(args)
    /\ UNCHANGED <<args, pc, i, y, drawn, prev>>

CallChoosePageSize ==
    /\ call = ""
    /\ call' = "_choose_page_size"
    /\ ret' = _choose_page_size(args)
    /\ UNCHANGED <<args, pc, i, y, drawn, prev>>

CallGetTheme ==
    /\ call = ""
    /\ call' = "get_theme"
    /\ ret' = get_theme(args.theme)
    /\ UNCHANGED <<args, pc, i, y, drawn, prev>>

NextRequest == CallDeterminePageSize \/ CallChoosePageSize \/ CallGetTheme

SpecRequest == InitRequest /\ [][NextRequest]_vars

PageResolved == call \in {"_determine_page_size", "_choose_page_size"}

LandscapeA4 == <<841890, 595276>>
PortraitA4 == <<595276, 841890>>
PortraitA5 == <<419528, 595276>>

\* C11: in both emitters a present device preset alone determines the page:
\* desktop -> landscape A4, tablet -> portrait A4, mobile -> portrait A5,
\* whatever the orientation field holds.
C11_PresetDecidesPage ==
    PageResolved /\ args.device_preset # None =>
        /\ args.device_preset = "desktop" => ret = LandscapeA4
        /\ args.device_preset = "tablet" => ret = PortraitA4
        /\ args.device_preset = "mobile" => ret = PortraitA5

\* the enhanced emitter resolved a mobile preset against a landscape orientation
C11_Witness ==
    /\ call = "_choose_page_size"
    /\ args.device_preset = "mobile"
    /\ args.orientation = "landscape"
    /\ ret = PortraitA5

\* C12: in both emitters, without a preset the orientation decides: portrait
\* gives portrait A4 (height > width), landscape gives landscape A4 (width >
\* height), and with no orientation either the page is landscape A4.
C12_OrientationDecidesPage ==
    PageResolved /\ args.device_preset = None =>
        /\ args.orientation = "portrait" => ret = PortraitA4 /\ ret[2] > ret[1]
        /\ args.orientation = "landscape" => ret = LandscapeA4 /\ ret[1] > ret[2]
        /\ args.orientation = None => ret = LandscapeA4

ThemeTables == {"fonts", "sizes", "colors", "margins", "layout"}

\* C20: get_theme returns a complete theme for every name (fonts, sizes,
\* colors, margins and layout tables); chalkboard and corporate in any letter
\* case give their own theme and every other name, the empty string and None
\* give the minimalist default.
C20_ThemeAlwaysComplete ==
    call = "get_theme" =>
        /\ ThemeTables \subseteq DOMAIN ret
        /\ \A t \in ThemeTables : DOMAIN ret[t] # {}
        /\ args.theme \in {"chalkboard", "Chalkboard", "CHALKBOARD"}
              => ret.colors.bg = <<1, 15, 3, 13, 2, 11>>
        /\ args.theme \in {"corporate", "Corporate", "CORPORATE"}
              => ret.colors.bg = <<15, 4, 15, 7, 15, 11>>
        /\ args.theme \notin {"chalkboard", "Chalkboard", "CHALKBOARD",
                              "corporate", "Corporate", "CORPORATE"}
              => ret.colors.bg = <<15, 15, 15, 15, 15, 15>>

\* an unknown name fell back to the minimalist default
C20_Witness ==
    /\ call = "get_theme"
    /\ args.theme = "NEON"
    /\ ret.colors.accent2 = <<1, 0, 11, 9, 8, 1>>
    /\ ThemeTables \subseteq DOMAIN ret

\* ------------------------------------------------------------------------
\* Theme objects on the heap: what scaling does to the caller's theme
\* ------------------------------------------------------------------------

\* A heap is a sequence of objects, an address an index into it.  A theme
\* dict holds its sizes dict by address; the tables no function writes to are
\* held by value.

\* the heap of a caller that owns one theme: the theme at 1, its sizes at 2
heap_of(theme) == <<[theme EXCEPT !.sizes = 2], theme.sizes>>

\* the theme value seen through an address
load(heap, addr) == [heap[addr] EXCEPT !.sizes = heap[heap[addr].sizes]]

\* mutant of deepcopy: copy.copy, a new dict that shares the nested sizes dict
deepcopy_shares_nested(heap, addr) ==
    [heap |-> Append(heap, heap[addr]), addr |-> Len(heap) + 1]

\* copy.deepcopy(theme): a new dict with a new sizes dict
deepcopy(heap, addr) ==
    [heap |-> heap \o <<[heap[addr] EXCEPT !.sizes = Len(heap) + 2],
                        heap[heap[addr].sizes]>>,
     addr |-> Len(heap) + 1]

\* pdf_builder._apply_scale_to_theme on the heap: sizes = theme_local["sizes"]
\* is the copy's own dict, and every sizes[...] = ... stores into it
apply_scale_on_heap(heap, addr, scale) ==
    LET c == deepcopy(heap, addr)
        sizes == c.heap[c.addr].sizes
        scaled == _apply_scale_to_theme(load(c.heap, c.addr), scale).sizes
    IN [heap |-> [c.heap EXCEPT ![sizes] = scaled], addr |-> c.addr]

\* pdf_enhanced._apply_scale_to_theme on the heap: sizes = dict(t.get("sizes"))
\* is one more new dict, stored into and then bound to t["sizes"]
apply_scale_enhanced_on_heap(heap, addr, scale) ==
    LET c == deepcopy(heap, addr)
        sizes == Len(c.heap) + 1
        scaled == _apply_scale_to_theme_enhanced(load(c.heap, c.addr), scale).sizes
    IN [heap |-> Append(c.heap, scaled),
        addr |-> c.addr,
        sizes |-> sizes]

\* t["sizes"] = sizes
bind_sizes(r) ==
    [heap |-> [r.heap EXCEPT ![r.addr] = [@ EXCEPT !.sizes = r.sizes]], addr |-> r.addr]

HeapPlans == [device_preset : DevicePresets \cup {None}, orientation : {None}]

InitHeap ==
    /\ call = ""
    /\ \E t \in ScaleThemes, s \in ScaleFactors, p \in HeapPlans :
          /\ args = [heap |-> heap_of(t), theme |-> 1, scale |-> s, plan |-> p]
          /\ prev = t
    /\ ret = None
    /\ pc = None
    /\ i = 0
    /\ y = 0
    /\ drawn = <<>>

\* pdf_builder._apply_scale_to_theme(theme, scale)
CallApplyScaleOnHeap ==
    /\ call = ""
    /\ call' = "_apply_scale_to_theme"
    /\ \E r \in {apply_scale_on_heap(args.heap, args.theme, args.scale)} :
          /\ args' = [args EXCEPT !.heap = r.heap]
          /\ ret' = r.addr
    /\ UNCHANGED <<pc, i, y, drawn, prev>>

\* pdf_enhanced._apply_scale_to_theme(theme, scale)
CallApplyScaleEnhancedOnHeap ==
    /\ call = ""
    /\ call' = "pdf_enhanced._apply_scale_to_theme"
    /\ \E r \in {bind_sizes(apply_scale_enhanced_on_heap(args.heap, args.theme,
                                                         args.scale))} :
          /\ args' = [args EXCEPT !.heap = r.heap]
          /\ ret' = r.addr
    /\ UNCHANGED <<pc, i, y, drawn, prev>>

\* build_pdf(plan, theme): the scale comes from the content frame; the drawing
\* functions only read theme_local, nothing else stores into a theme
CallBuildPdfOnHeap ==
    /\ call = ""
    /\ call' = "build_pdf"
    /\ LET page == _determine_page_size(args.plan)
           cf == content_frame(page[1], page[2], load(args.heap, args.theme))
       IN \E r \in {apply_scale_on_heap(args.heap, args.theme, _compute_scale(cf.w))} :
             /\ args' = [args EXCEPT !.heap = r.heap]
             /\ ret' = r.addr
    /\ UNCHANGED <<pc, i, y, drawn, prev>>

\* build_enhanced_pdf(plan, theme): the scale comes from the page width
CallBuildEnhancedPdfOnHeap ==
    /\ call = ""
    /\ call' = "build_enhanced_pdf"
    /\ LET page == _choose_page_size(args.plan)
       IN \E r \in {bind_sizes(apply_scale_enhanced_on_heap(
                        args.heap, args.theme, _compute_scale_enhanced(page[1])))} :
             /\ args' = [args EXCEPT !.heap = r.heap]
             /\ ret' = r.addr
    /\ UNCHANGED <<pc, i, y, drawn, prev>>

NextHeap ==
    \/ CallApplyScaleOnHeap
    \/ CallApplyScaleEnhancedOnHeap
    \/ CallBuildPdfOnHeap
    \/ CallBuildEnhancedPdfOnHeap

SpecHeap == InitHeap /\ [][NextHeap]_vars

\* C13: scaling never mutates its input: after either _apply_scale_to_theme,
\* and after a whole build_pdf or build_enhanced_pdf, the caller's theme with
\* its nested sizes table equals what it was before the call; the scaled
\* sizes live only in the returned copy.
C13_CallerThemeUnchanged ==
    call # "" =>
        /\ load(args.heap, args.theme) = prev
        /\ args.heap[1] = heap_of(prev)[1]
        /\ args.heap[2] = heap_of(prev)[2]
        /\ ret # args.theme
        /\ args.heap[ret].sizes # args.heap[args.theme].sizes

\* a scale below 1 was applied: the copy's body size differs, the caller's does not
C13_Witness ==
    /\ call = "_apply_scale_to_theme"
    /\ load(args.heap, ret).sizes.body < prev.sizes.body
    /\ load(args.heap, args.theme).sizes.body = prev.sizes.body

\* ------------------------------------------------------------------------
\* Title fitting: diagram_draw.clamp_title, pdf_enhanced._draw_center_title_fitted
\* ------------------------------------------------------------------------

RECURSIVE clamp_title_shrink(_, _, _, _, _)

\* mutant of clamp_title_shrink: the size is never stepped down
clamp_title_shrink_never(text, font_name, size, min_size, max_width) == size

\* while size > min_size and stringWidth(text) > max_width: size -= 1
clamp_title_shrink(text, font_name, size, min_size, max_width) ==
    IF size > min_size /\ stringWidth(text, font_name, size) > max_width
    THEN clamp_title_shrink(text, font_name, size - 1, min_size, max_width)
    ELSE size

\* diagram_draw.clamp_title: (size, lines)
clamp_title(text, font_name, start_size, min_size, max_width) ==
    IF stringWidth(text, font_name, start_size) <= max_width
    THEN [size |-> start_size, lines |-> <<text>>]
    ELSE LET size == clamp_title_shrink(text, font_name, start_size, min_size, max_width)
             lines == text_wrap(text, font_name, size, max_width)
         IN IF stringWidth(text, font_name, size) <= max_width
            THEN [size |-> size, lines |-> <<text>>]
            ELSE [size |-> size,
                  lines |-> IF Len(lines) > 2
                            THEN <<join(SubSeq(lines, 1, Len(lines) - 1)), lines[Len(lines)]>>
                            ELSE lines]

\* the marker pdf_enhanced appends (line 354): the three characters U+00E2
\* U+20AC U+00A6, a mis-decoded U+2026, as one glyph run
ell == "<ell>"

\* pdf_enhanced._draw_center_title_fitted: the size it settles on and the
\* strings it draws (lines[:2])
_draw_center_title_fitted(title, theme, page_w, page_h) ==
    LET cf == _safe_frame(page_w, page_h, theme)
        font == get(theme.fonts, "display", get(theme.fonts, "title", "Helvetica-Bold"))
        start == get(theme.sizes, "display", get(theme.sizes, "title", 28))
        min_size == Max(18, get(theme.sizes, "title", 20))
        max_width == (cf.w * 9) \div 10
        text == IF title = <<>> THEN <<"Untitled">> ELSE title
        size == clamp_title_shrink(text, font, start, min_size, max_width)
        wrapped == _wrap_text_loop(split(text), <<>>, <<>>, font, size, max_width)
        tail == join(SubSeq(wrapped, 2, Len(wrapped))) \o <<ell>>
    IN IF stringWidth(text, font, size) <= max_width
       THEN [size |-> size, lines |-> <<text>>]
       ELSE IF Len(wrapped) > 2
       THEN [size |-> clamp_title_shrink(tail, font, size, min_size, max_width),
             lines |-> <<wrapped[1], tail>>]
       ELSE [size |-> size, lines |-> wrapped]

\* ------------------------------------------------------------------------
\* Specification of title fitting
\* ------------------------------------------------------------------------

TitleLong ==
    <<"A", " ", "Very", " ", "Long", " ", "Lecture", " ", "Title", " ", "That", " ",
      "Does", " ", "Not", " ", "Fit", " ", "on", " ", "One", " ", "Line", " ", "at",
      " ", "Forty-Four", " ", "Points">>

\* a long title, a short one, one word, a blank and an empty title
Titles == {TitleLong, PointStacks, <<"Understanding">>, <<" ">>, <<>>}

TitleSizes == {18, 38, 44, 46}
TitleWidths == {1000, 100000, 276775, 600000, 656901}

InitTitle ==
    /\ call = ""
    /\ args \in [text : Titles, font_name : {"Helvetica-Bold"}, start_size : TitleSizes,
                 min_size : {18}, max_width : TitleWidths]
               \cup [title : Titles, theme : BuiltinThemes, page : ResolvedPages]
    /\ ret = None
    /\ NoFlow

CallClampTitle ==
    /\ call = ""
    /\ "text" \in DOMAIN args
    /\ call' = "clamp_title"
    /\ ret' = clamp_title(args.text, args.font_name, args.start_size, args.min_size,
                          args.max_width)
    /\ UNCHANGED <<args, pc, i, y, drawn, prev>>

CallDrawCenterTitleFitted ==
    /\ call = ""
    /\ "title" \in DOMAIN args
    /\ call' = "_draw_center_title_fitted"
    /\ ret' = _draw_center_title_fitted(args.title, args.theme, args.page[1], args.page[2])
    /\ UNCHANGED <<args, pc, i, y, drawn, prev>>

NextTitle == CallClampTitle \/ CallDrawCenterTitleFitted

SpecTitle == InitTitle /\ [][NextTitle]_vars

TitleFits(size) == stringWidth(args.text, args.font_name, size) <= args.max_width

\* the parts of C14 that do not count the lines
ClampSizeAndShape ==
    /\ ret.size >= args.min_size
    /\ ret.size <= args.start_size
    /\ Len(ret.lines) <= 2
    /\ (\E s \in args.min_size..args.start_size : TitleFits(s)) =>
          /\ ret.lines = <<args.text>>
          /\ TitleFits(ret.size)
          /\ \A s \in (ret.size + 1)..args.start_size : ~TitleFits(s)
    /\ Len(ret.lines) = 2 => ~TitleFits(args.min_size)

\* C14 as stated: for every title, start size >= min size and max_width,
\* clamp_title returns min_size <= size <= start_size and one or two lines,
\* the unwrapped title at the largest size at which it fits, and two lines
\* only when the title does not fit at min_size.
C14_ClampTitleOneOrTwoLines ==
    call = "clamp_title" => ClampSizeAndShape /\ Len(ret.lines) >= 1

\* C14 amended: the same, with at least one line whenever the title has a word
\* (a blank title that does not fit at min_size yields no line).
C14_ClampTitleAtMostTwoLines ==
    call = "clamp_title" =>
        /\ ClampSizeAndShape
        /\ split(args.text) # <<>> => Len(ret.lines) >= 1
        /\ ret.lines = <<>> => split(args.text) = <<>> /\ ~TitleFits(args.min_size)

\* a title was shrunk below its start size and returned on one line
C14_Witness ==
    /\ call = "clamp_title"
    /\ ret.size < args.start_size
    /\ ret.size > args.min_size
    /\ ret.lines = <<args.text>>
    /\ TitleFits(ret.size)
    /\ ~TitleFits(ret.size + 1)

\* the width the fitted title may take, and its font
FitWidth ==
    IF call = "clamp_title" THEN args.max_width
    ELSE (_safe_frame(args.page[1], args.page[2], args.theme).w * 9) \div 10
FitFont == IF call = "clamp_title" THEN args.font_name ELSE args.theme.fonts.title
FitText ==
    IF call = "clamp_title" THEN args.text
    ELSE IF args.title = <<>> THEN <<"Untitled">> ELSE args.title
FitMinSize ==
    IF call = "clamp_title" THEN args.min_size ELSE Max(18, args.theme.sizes.title)

\* C15: when the title at minimum size wraps to more than 2 lines, title
\* fitting yields exactly 2 lines, the second ending with an ellipsis marker,
\* and each of the two lines fits within max_width.
C15_OverflowTruncatedWithEllipsis ==
    /\ call \in {"clamp_title", "_draw_center_title_fitted"}
    /\ Len(text_wrap(FitText, FitFont, FitMinSize, FitWidth)) > 2
    => /\ Len(ret.lines) = 2
       /\ ret.lines[2][Len(ret.lines[2])] \in {ell, "..."}
       /\ \A k \in 1..2 : stringWidth(ret.lines[k], FitFont, ret.size) <= FitWidth

\* ------------------------------------------------------------------------
\* Process flow grid: pdf_builder.draw_flowchart
\* Lengths of the grid are in sixths of a millipoint, so that cf_w/3 and the
\* halves taken when centring are exact.
\* ------------------------------------------------------------------------

sixths(mpt) == 6 * mpt

gap_x == sixths(pt(28))
gap_y == sixths(pt(34))

\* int(a / b) for b > 0: truncation toward zero
int_div(a, b) == IF a < 0 THEN -((-a) \div b) ELSE a \div b

\* math.ceil(a / b) for a >= 0, b > 0
ceil_div(a, b) == (a + b - 1) \div b

\* mutant of target_box_w: the width is not held to its upper limit
target_box_w_no_cap(cf_w) == Max(sixths(pt(160)), 2 * cf_w - gap_x)

\* target_box_w = max(160, min(220, cf_w/3 - gap_x)); cf_w in millipoints
target_box_w(cf_w) == Max(sixths(pt(160)), Min(sixths(pt(220)), 2 * cf_w - gap_x))

\* the grid of draw_flowchart for a frame width and a number of steps:
\* box width, columns, rows and the cell (row, col) of every step i = 0..n-1
flow_grid(cf_w, n) ==
    LET w == target_box_w(cf_w)
        cols == Max(1, Min(3, int_div(sixths(cf_w) + gap_x, w + gap_x)))
    IN [target_box_w |-> w, cols |-> cols, rows |-> ceil_div(n, cols),
        cells |-> [k \in 1..n |-> [row |-> (k - 1) \div cols, col |-> (k - 1) % cols]]]

\* len(text) of a string held as glyph runs
RECURSIVE len(_)
len(text) == IF text = <<>> THEN 0 ELSE Len(Head(text)) + len(Tail(text))

\* text[:n]
RECURSIVE take(_, _)
take(text, n) ==
    IF n <= 0 \/ text = <<>> THEN <<>>
    ELSE IF Len(Head(text)) <= n THEN <<Head(text)>> \o take(Tail(text), n - Len(Head(text)))
    ELSE <<SubSeq(Head(text), 1, n)>>

\* label = text if len(text) <= 40 else text[:40] + "..."
flow_label(text) == IF len(text) <= 40 THEN text ELSE take(text, 40) \o <<"...">>

\* the strings drawn in a box of width w: lines[:3] of the wrapped label
flow_lines(text, font_name, w) ==
    LET lines == text_wrap(flow_label(text), font_name, 13, (w - sixths(pt(28))) \div 6)
    IN SubSeq(lines, 1, Min(3, Len(lines)))

NoArrow == [kind |-> "none", x0 |-> 0, y0 |-> 0, x1 |-> 0, y1 |-> 0]

\* mutant of flow_arrow: the last box of a row has no connector
flow_arrow_rows_unlinked(k, n, grid, bx, by, box_h, start_x, start_y) ==
    LET cols == grid.cols
        median_w == grid.target_box_w
        col == grid.cells[k].col
    IN IF col < cols - 1 /\ k - 1 < n - 1
       THEN [kind |-> "right", x0 |-> bx + median_w, y0 |-> by + box_h \div 2,
             x1 |-> bx + median_w + gap_x, y1 |-> by + box_h \div 2]
       ELSE NoArrow

\* the connector leaving step k (1-based) of n: lines 337-363
flow_arrow(k, n, grid, bx, by, box_h, start_x, start_y) ==
    LET cols == grid.cols
        median_w == grid.target_box_w
        col == grid.cells[k].col
        next_row == k \div cols
        next_col == k % cols
        next_bx == start_x + next_col * (median_w + gap_x)
        next_by == start_y - next_row * (box_h + gap_y)
    IN IF col < cols - 1 /\ k - 1 < n - 1
       THEN [kind |-> "right", x0 |-> bx + median_w, y0 |-> by + box_h \div 2,
             x1 |-> bx + median_w + gap_x, y1 |-> by + box_h \div 2]
       ELSE IF col = cols - 1 /\ k - 1 < n - 1
       THEN [kind |-> "down", x0 |-> bx + median_w \div 2, y0 |-> by,
             x1 |-> next_bx + median_w \div 2, y1 |-> next_by + box_h]
       ELSE NoArrow

\* the slide whose points become the steps: the first "process" slide, else
\* the first slide, else none
RECURSIVE first_process(_)
first_process(slides) ==
    IF slides = <<>> THEN <<>>
    ELSE IF get(Head(slides), "diagram", None) = "process" THEN <<Head(slides)>>
    ELSE first_process(Tail(slides))

pick_slide(plan) ==
    IF first_process(plan.slides) # <<>> THEN first_process(plan.slides)
    ELSE IF plan.slides # <<>> THEN <<plan.slides[1]>>
    ELSE <<>>

\* pdf_builder.draw_flowchart: the grid and, for every step, its box, the
\* strings drawn in it and the connector leaving it
draw_flowchart(plan, theme, page_w, page_h) ==
    LET cf == content_frame(page_w, page_h, theme)
        proc == pick_slide(plan)
        steps == IF proc = <<>> THEN <<>>
                 ELSE SubSeq(proc[1].points, 1, Min(6, Len(proc[1].points)))
        n == Len(steps)
        theme_name == lower(plan.theme)
        grid == flow_grid(cf.w, n)
        cols == grid.cols
        rows == grid.rows
        median_w == grid.target_box_w
        box_h == sixths(pt(IF theme_name = "chalkboard" THEN 104 ELSE 96))
        total_grid_w == cols * median_w + (cols - 1) * gap_x
        total_grid_h == rows * box_h + (rows - 1) * gap_y
        cf_x == sixths(cf.x)
        cf_y == sixths(cf.y)
        cf_w == sixths(cf.w)
        cf_h == sixths(cf.h)
        start_x == cf_x + (cf_w - total_grid_w) \div 2
        start_y == cf_y + (cf_h - total_grid_h) \div 2 + total_grid_h - box_h
        bx0(k) == Max(start_x + grid.cells[k].col * (median_w + gap_x), cf_x)
        bx(k) == IF bx0(k) + median_w > cf_x + cf_w THEN cf_x + cf_w - median_w ELSE bx0(k)
        by(k) == start_y - grid.cells[k].row * (box_h + gap_y)
    IN [grid |-> grid, frame |-> [x |-> cf_x, y |-> cf_y, w |-> cf_w, h |-> cf_h],
        box_h |-> box_h,
        boxes |-> [k \in 1..n |->
                     [row |-> grid.cells[k].row, col |-> grid.cells[k].col,
                      bx |-> bx(k), by |-> by(k), text |-> steps[k],
                      lines |-> flow_lines(steps[k], theme.fonts.body, median_w),
                      arrow |-> flow_arrow(k, n, grid, bx(k), by(k), box_h,
                                           start_x, start_y)]]]

\* ------------------------------------------------------------------------
\* Specification of the process flow page
\* ------------------------------------------------------------------------

LabelUpper == <<"DYNAMIC", " ", "PROGRAMMING", " ", "MEMORY", " ", "OVERHEAD">>
LabelOver40 == LabelUpper \o <<" ", "COSTS">>
LabelLong ==
    <<"Understanding", " ", "Performance", " ", "Considerations", " ", "and", " ",
      "Optimization">>

FlowLabels == <<PointStacks, LabelUpper, LabelOver40, LabelLong>>

\* n labels, taken in turn
StepPoints(n) == [k \in 1..n |-> FlowLabels[((k - 1) % 4) + 1]]

MaxSteps == 7

\* no slide, one slide of 0..MaxSteps points, and a plain slide followed by a
\* "process" slide
FlowchartSlides ==
    {<<>>}
    \cup {<<[diagram |-> d, points |-> StepPoints(n)]>> :
             d \in {"process", None}, n \in 0..MaxSteps}
    \cup {<<[diagram |-> None, points |-> StepPoints(2)],
            [diagram |-> "process", points |-> StepPoints(5)]>>}

\* resolved pages, and pages whose frame is 700, 0, -12, 348, 536, 564, 744
\* and 1000 pt wide under the built-in 56 pt insets
FlowchartPages ==
    ResolvedPages \cup {<<w, 595276>> : w \in {812000, 112000, 100000, 460000, 648000,
                                                676000, 856000, 1112000}}

InitFlowchart ==
    /\ call = ""
    /\ args \in [plan : [theme : ThemeNames, slides : FlowchartSlides],
                 page : FlowchartPages]
    /\ ret = None
    /\ NoFlow

CallDrawFlowchart ==
    /\ call = ""
    /\ call' = "draw_flowchart"
    /\ ret' = draw_flowchart(args.plan, get_theme(args.plan.theme), args.page[1],
                             args.page[2])
    /\ UNCHANGED <<args, pc, i, y, drawn, prev>>

NextFlowchart == CallDrawFlowchart

SpecFlowchart == InitFlowchart /\ [][NextFlowchart]_vars

\* the frame width, in millipoints, and the number of steps of the call
FlowchartWidth ==
    content_frame(args.page[1], args.page[2], get_theme(args.plan.theme)).w
StepCount == Len(ret.boxes)
BoxesInRow(r) == Cardinality({k \in 1..StepCount : ret.boxes[k].row = r})

\* C16: with gap 28 the box width is cf_w/3 - gap held within [160, 220], the
\* columns are floor((cf_w + gap) / (width + gap)) held within [1, 3], the
\* rows are ceil(s / columns); 5 steps at cf_w = 700 give 3 columns and 2
\* rows of 3 and 2 boxes.
C16_GridDimensions ==
    call = "draw_flowchart" /\ StepCount >= 1 =>
        LET W == FlowchartWidth
            T == ret.grid.target_box_w
            cols == ret.grid.cols
            rows == ret.grid.rows
            gap == sixths(28000)
            raw == 2 * W - gap
        IN /\ T >= sixths(160000) /\ T <= sixths(220000)
           /\ raw \in sixths(160000)..sixths(220000) => T = raw
           /\ raw < sixths(160000) => T = sixths(160000)
           /\ raw > sixths(220000) => T = sixths(220000)
           /\ cols \in 1..3
           /\ cols > 1 => cols * (T + gap) <= sixths(W) + gap
           /\ cols < 3 => (cols + 1) * (T + gap) > sixths(W) + gap
           /\ rows * cols >= StepCount
           /\ (rows - 1) * cols < StepCount
           /\ \A k \in 1..StepCount :
                 ret.boxes[k].row * cols + ret.boxes[k].col = k - 1
           /\ W = 700000 /\ StepCount = 5 =>
                 cols = 3 /\ rows = 2 /\ BoxesInRow(0) = 3 /\ BoxesInRow(1) = 2

\* five steps were laid out in a 700 pt frame
C16_Witness ==
    /\ call = "draw_flowchart"
    /\ FlowchartWidth = 700000
    /\ StepCount = 5
    /\ ret.grid.cols = 3
    /\ ret.grid.rows = 2

Arrows == {k \in 1..StepCount : ret.boxes[k].arrow.kind # "none"}

\* C17: s steps have exactly s - 1 connectors: every step but the last has
\* one arrow to the next step, horizontal inside a row and downward to the
\* first box of the next row from the last column; the last step has none.
\* An arrow ends on the box of the next step (for a downward arrow this is
\* stated for frames of non-negative width: the code aims at the unclamped
\* position of the next box).
C17_OneConnectorPerStep ==
    call = "draw_flowchart" /\ StepCount >= 1 =>
        LET cols == ret.grid.cols
            w == ret.grid.target_box_w
            b == ret.boxes
        IN /\ Cardinality(Arrows) = StepCount - 1
           /\ b[StepCount].arrow.kind = "none"
           /\ \A k \in 1..(StepCount - 1) :
                 /\ b[k].col < cols - 1 =>
                       /\ b[k].arrow.kind = "right"
                       /\ b[k + 1].row = b[k].row
                       /\ b[k + 1].col = b[k].col + 1
                       /\ b[k].arrow.x0 = b[k].bx + w
                       /\ b[k].arrow.x1 = b[k + 1].bx
                       /\ b[k].arrow.y1 = b[k].arrow.y0
                 /\ b[k].col = cols - 1 =>
                       /\ b[k].arrow.kind = "down"
                       /\ b[k + 1].row = b[k].row + 1
                       /\ b[k + 1].col = 0
                       /\ b[k].arrow.y0 = b[k].by
                       /\ b[k].arrow.y1 = b[k + 1].by + ret.box_h
                       /\ FlowchartWidth >= 0 =>
                             /\ b[k].arrow.x1 >= b[k + 1].bx
                             /\ b[k].arrow.x1 <= b[k + 1].bx + w

\* six steps in two columns: rows joined by downward connectors
C17_Witness ==
    /\ call = "draw_flowchart"
    /\ StepCount = 6
    /\ ret.grid.cols = 2
    /\ ret.boxes[1].arrow.kind = "right"
    /\ ret.boxes[2].arrow.kind = "down"
    /\ ret.boxes[6].arrow.kind = "none"

\* the interior width of a box, in millipoints
BoxInterior == (ret.grid.target_box_w - sixths(28000)) \div 6
BodyFont == get_theme(args.plan.theme).fonts.body
LastGlyph(line) == line[Len(line)]

\* C18: a box shows at most 3 wrapped label lines, and whenever the step
\* label does not fit within 3 lines of the box's interior width the drawn
\* text ends with an ellipsis marker.
C18_LabelTruncatedWithEllipsis ==
    call = "draw_flowchart" =>
        \A k \in 1..StepCount :
            /\ Len(ret.boxes[k].lines) <= 3
            /\ Len(text_wrap(ret.boxes[k].text, BodyFont, 13, BoxInterior)) > 3 =>
                  /\ ret.boxes[k].lines # <<>>
                  /\ LastGlyph(ret.boxes[k].lines[Len(ret.boxes[k].lines)]) = "..."

\* ------------------------------------------------------------------------
\* The bullet flow as a state machine, with progress: a call of
\* _draw_bulleted_paragraphs is one sequential loop, so a pass that can be
\* taken is taken
\* ------------------------------------------------------------------------

\* the guards of EnterBulletLoop and of the two passes of the loop body
EnterEnabled == pc = "READY"
DrawItemEnabled ==
    pc = "FLOWING" /\ i <= Len(FlowSlide.points) /\ ~(y < min_y(FlowTheme.layout))
StopEnabled ==
    pc = "FLOWING" /\ i <= Len(FlowSlide.points) /\ y < min_y(FlowTheme.layout)

\* weak fairness of each of the four actions. For all but
\* FinishBulletLoop, WF_vars(A) is written out as
\* []<>~ENABLED <<A>>_vars \/ []<><<A>>_vars, with the action's guard for
\* ENABLED <<A>>_vars (each changes i or pc whenever its guard holds) and,
\* for the step, the only step of NextFlow that leaves the guard that way.
SpecFlowLive ==
    /\ InitFlow
    /\ [][NextFlow]_vars
    /\ WF_vars(FinishBulletLoop)
    /\ ([]<>(~EnterEnabled) \/ []<><<EnterEnabled /\ pc' = "FLOWING">>_vars)
    /\ ([]<>(~DrawItemEnabled) \/ []<><<DrawItemEnabled /\ i' = i + 1>>_vars)
    /\ ([]<>(~StopEnabled) \/ []<><<StopEnabled /\ pc' # pc>>_vars)

FlowStates == {"READY", "FLOWING", "STOPPED_FOR_PAGE_BREAK", "FINISHED"}
FlowTerminal == {"STOPPED_FOR_PAGE_BREAK", "FINISHED"}

\* the steps the state machine allows
FlowStep ==
    /\ pc = "READY" => pc' \in {"READY", "FLOWING"}
    /\ pc = "FLOWING" => pc' \in {"FLOWING"} \cup FlowTerminal
    /\ pc = "FLOWING" => y' <= y
    /\ pc \in FlowTerminal => pc' = pc /\ drawn' = drawn /\ y' = y /\ i' = i

\* C19: one run of the bullet flow follows READY -> FLOWING ->
\* {STOPPED_FOR_PAGE_BREAK | FINISHED}; it always ends in one of the two
\* terminal states, STOPPED with the cursor below the minimum y before some
\* item and FINISHED with every item placed; nothing is drawn after a terminal
\* state; the cursor never rises during the run; no other state is reached,
\* whatever the text, a word wider than the line included.
C19_FlowStateMachine ==
    /\ [](pc \in FlowStates)
    /\ [][FlowStep]_vars
    /\ [](pc = "STOPPED_FOR_PAGE_BREAK" =>
             i <= Len(FlowSlide.points) /\ y < min_y(FlowTheme.layout))
    /\ [](pc = "FINISHED" => ItemsDrawn = 1..Len(FlowSlide.points))
    /\ <>(pc \in FlowTerminal)

\* the width of a line of bullet text
FlowLineWidth == FlowRegion.max_w - pt(FlowTheme.layout.bullet_indent_pt) - pt(6)

\* the flow finished a slide on which a word wider than the line was drawn
C19_Witness ==
    /\ pc = "FINISHED"
    /\ \E k \in 1..Len(drawn) :
          stringWidth(drawn[k].text, FlowTheme.fonts.body, FlowTheme.sizes.body)
              > FlowLineWidth

\* ------------------------------------------------------------------------
\* The two frame calculators compared
\* ------------------------------------------------------------------------

\* the page inset on each side by max(layout.safe_*, margins.*)
InsetByMax(page, theme) ==
    LET left == pt(Max(theme.layout.safe_left, theme.margins.left))
        right == pt(Max(theme.layout.safe_right, theme.margins.right))
        top == pt(Max(theme.layout.safe_top, theme.margins.top))
        bottom == pt(Max(theme.layout.safe_bottom, theme.margins.bottom))
    IN [x |-> left, y |-> bottom, w |-> page[1] - left - right,
        h |-> page[2] - top - bottom]

\* C25: for each built-in theme and each resolvable page size,
\* diagram_draw.content_frame and pdf_enhanced._safe_frame return the same
\* frame: the page inset on each side by max(layout.safe_*, margins.*).
C25_FrameCalculatorsAgree ==
    (FrameComputed /\ args.page \in ResolvedPages /\ args.theme \in BuiltinThemes) =>
        /\ ret = InsetByMax(args.page, args.theme)
        /\ content_frame(args.page[1], args.page[2], args.theme)
              = _safe_frame(args.page[1], args.page[2], args.theme)

\* ------------------------------------------------------------------------
\* The relaxation of layout_radial, pair by pair
\* ------------------------------------------------------------------------

\* call layout_radial: lines 42-49 place the nodes on the circle; the first
\* pass starts with node 0, whose x, y are read at line 54
InitRelax ==
    /\ call = "layout_radial"
    /\ args \in [nodes : RadialNodeLists, radius : Radii \cup {0}]
    /\ ret = [k \in 1..Len(args.nodes) |-> initial_coord(args.nodes, args.radius, k)]
    /\ pc = "RELAX"
    /\ i = 1
    /\ y = 2
    /\ drawn = <<>>
    /\ prev = [pass |-> 1, xi |-> ret[1].x, yi |-> ret[1].y, before |-> ret,
               pair |-> <<0, 0>>]

\* lines 56-68: the body of the inner loop for the pair (i, y)
PushPair ==
    /\ pc = "RELAX"
    /\ i <= Len(ret)
    /\ y <= Len(ret)
    /\ ret' = push_pair(ret, i, y, prev.xi, prev.yi)
    /\ y' = y + 1
    /\ prev' = [prev EXCEPT !.before = ret, !.pair = <<i, y>>]
    /\ UNCHANGED <<call, args, pc, i, drawn>>

\* lines 53-55: the inner loop is exhausted; the next node's x, y are read
NextNode ==
    /\ pc = "RELAX"
    /\ i <= Len(ret)
    /\ y > Len(ret)
    /\ i' = i + 1
    /\ y' = i + 2
    /\ prev' = IF i + 1 <= Len(ret)
               THEN [prev EXCEPT !.xi = ret[i + 1].x, !.yi = ret[i + 1].y,
                                 !.pair = <<0, 0>>]
               ELSE [prev EXCEPT !.pair = <<0, 0>>]
    /\ UNCHANGED <<call, args, ret, pc, drawn>>

\* line 52: the next of the relax_iters passes
NextPass ==
    /\ pc = "RELAX"
    /\ i > Len(ret)
    /\ prev.pass < relax_iters
    /\ i' = 1
    /\ y' = 2
    /\ prev' = [prev EXCEPT !.pass = @ + 1, !.xi = ret[1].x, !.yi = ret[1].y]
    /\ UNCHANGED <<call, args, ret, pc, drawn>>

\* line 70: the passes are over
FinishRelax ==
    /\ pc = "RELAX"
    /\ i > Len(ret)
    /\ prev.pass >= relax_iters
    /\ pc' = "DONE"
    /\ UNCHANGED <<call, args, ret, i, y, drawn, prev>>

NextRelax == PushPair \/ NextNode \/ NextPass \/ FinishRelax

SpecRelax == InitRelax /\ [][NextRelax]_vars

\* the step by step relaxation ends where layout_radial does
RelaxAgreesWithLayoutRadial ==
    pc = "DONE" =>
        [k \in 1..Len(ret) |-> [x |-> ret[k].x, y |-> ret[k].y, theta |-> ret[k].theta]]
            = layout_radial(args.nodes, args.radius)

\* the pair the last step worked on, and its centers before that step
PairDone == pc = "RELAX" /\ prev.pair # <<0, 0>>
Distance(coords, a, b) == hypot(coords[b].x - coords[a].x, coords[b].y - coords[a].y)
Moved(k) == hypot(ret[k].x - prev.before[k].x, ret[k].y - prev.before[k].y)
Within(a, b, tol) == a - b <= tol /\ b - a <= tol

\* C27: in each pass, every pair (i < j) with center distance d below
\* min_d = r_i + r_j + gutter, coincident centers included, has both centers
\* moved in opposite directions by (min_d - d) / 2 each, so that right after
\* the push the pair's distance is min_d; pairs with d >= min_d are left
\* unchanged; exactly relax_iters passes are made.  (Distances are compared
\* with 1 pt, 10 decipoints, of slack for the rounding of the arithmetic.)
C27_PairPushedToMinDistance ==
    /\ PairDone =>
          LET a == prev.pair[1]
              b == prev.pair[2]
              d == Distance(prev.before, a, b)
              min_d == node_radius(ret[a]) + node_radius(ret[b]) + gutter
          IN IF d < min_d - 10
             THEN /\ Within(Distance(ret, a, b), min_d, 10)
                  /\ Within(2 * Moved(a), min_d - d, 10)
                  /\ Within(2 * Moved(b), min_d - d, 10)
                  /\ ret[a].x - prev.before[a].x = -(ret[b].x - prev.before[b].x)
                  /\ ret[a].y - prev.before[a].y = -(ret[b].y - prev.before[b].y)
             ELSE d >= min_d => ret = prev.before
    /\ pc = "DONE" => prev.pass = relax_iters

\* ------------------------------------------------------------------------
\* Word wrapping: greedy, and nothing lost
\* ------------------------------------------------------------------------

\* the words of a list of lines, in order
RECURSIVE WordsOf(_)
WordsOf(lines) == IF lines = <<>> THEN <<>> ELSE split(Head(lines)) \o WordsOf(Tail(lines))

\* C29: text_wrap (and _wrap_text) is greedy and line-maximal: for two
\* consecutive returned lines, the earlier line, a space and the first word
\* of the later line measure wider than max_width; a returned line is wider
\* than max_width only if it is a single word; each word is processed once.
C29_GreedyLineMaximal ==
    Wrapped =>
        /\ \A k \in 1..(Len(ret) - 1) :
              LineWidth(ret[k] \o <<" ">> \o split(ret[k + 1])[1]) > args.max_width
        /\ \A k \in 1..Len(ret) :
              LineWidth(ret[k]) > args.max_width => Len(split(ret[k])) = 1
        /\ Len(WordsOf(ret)) = Len(split(args.text))

\* a wrap with a closed line of two words and an over-wide word on its own line
C29_Witness ==
    /\ Wrapped
    /\ Len(ret) >= 2
    /\ \E k \in 1..(Len(ret) - 1) :
          /\ Len(split(ret[k])) >= 2
          /\ LineWidth(ret[k]) <= args.max_width
    /\ \E k \in 1..Len(ret) : LineWidth(ret[k]) > args.max_width

\* the wrappers and the title fitter on the same texts
WrapMinSizes == {8, 10}

InitLossless ==
    /\ call = ""
    /\ args \in [text : WrapTexts, font_name : WrapFonts, font_size : WrapSizes,
                 max_width : WrapWidths, min_size : WrapMinSizes]
    /\ ret = None
    /\ NoFlow

CallClampTitleOnText ==
    /\ call = ""
    /\ call' = "clamp_title"
    /\ ret' = clamp_title(args.text, args.font_name, args.font_size, args.min_size,
                          args.max_width).lines
    /\ UNCHANGED <<args, pc, i, y, drawn, prev>>

NextLossless == CallTextWrap \/ CallWrapText \/ CallClampTitleOnText

SpecLossless == InitLossless /\ [][NextLossless]_vars

\* C30 as stated: the words of the returned lines, in order, are exactly the
\* whitespace-split words of the input, no returned line is empty and an
\* input with no words returns an empty list, for text_wrap, _wrap_text and
\* clamp_title alike.
C30_NothingLostNoEmptyLine ==
    call # "" =>
        /\ WordsOf(ret) = split(args.text)
        /\ \A k \in 1..Len(ret) : ret[k] # <<>>
        /\ split(args.text) = <<>> => ret = <<>>

\* C30 amended: the words are kept, in order, by all three; text_wrap and
\* _wrap_text return no empty line and an empty list for an input with no
\* words; clamp_title returns a title that fits, blank or empty included, as
\* its one line.
C30_NothingLost ==
    call # "" =>
        /\ WordsOf(ret) = split(args.text)
        /\ Wrapped => /\ \A k \in 1..Len(ret) : split(ret[k]) # <<>>
                      /\ split(args.text) = <<>> => ret = <<>>
        /\ call = "clamp_title" =>
              /\ \A k \in 1..Len(ret) : split(ret[k]) # <<>> \/ ret = <<args.text>>
              /\ LineWidth(args.text) <= args.max_width => ret = <<args.text>>

\* a title of three words came back as two lines that hold all three
C30_Witness ==
    /\ call = "clamp_title"
    /\ Len(ret) = 2
    /\ Len(split(ret[1])) = 2
    /\ Len(split(args.text)) = 3
    /\ WordsOf(ret) = split(args.text)

\* ------------------------------------------------------------------------
\* The flow grid inside the content frame
\* ------------------------------------------------------------------------

\* the pages of the three device presets
PresetPages ==
    {_determine_page_size([device_preset |-> d, orientation |-> None]) :
        d \in DevicePresets}

\* C28: for every device preset, built-in theme and step count 1..6, each
\* step box drawn by draw_flowchart lies inside the content frame on both
\* axes, and the grid is centred in the frame horizontally and vertically.
C28_BoxesInsideFrame ==
    (call = "draw_flowchart" /\ args.page \in PresetPages) =>
        LET f == ret.frame
            g == ret.grid
            w == g.target_box_w
            total_w == g.cols * w + (g.cols - 1) * gap_x
            total_h == g.rows * ret.box_h + (g.rows - 1) * gap_y
        IN \A k \in 1..StepCount :
              LET b == ret.boxes[k]
              IN /\ f.x <= b.bx
                 /\ b.bx + w <= f.x + f.w
                 /\ f.y <= b.by
                 /\ b.by + ret.box_h <= f.y + f.h
                 /\ 2 * (b.bx - b.col * (w + gap_x) - f.x) = f.w - total_w
                 /\ 2 * (b.by + b.row * (ret.box_h + gap_y) + ret.box_h
                           - total_h - f.y) = f.h - total_h

\* ------------------------------------------------------------------------
\* Page count and folios of build_pdf
\* ------------------------------------------------------------------------

\* (0 if notes_only else 2) + (0 if cheatsheet_only else number of slides)
ExpectedPages ==
    (IF args.notes_only THEN 0 ELSE 2)
    + (IF args.cheatsheet_only THEN 0 ELSE Len(args.plan.slides))

\* C23: for every plan and every combination of cheatsheet_only and
\* notes_only, build_pdf emits exactly total_pages pages, and the footer of
\* the k-th emitted page shows page_index = k with that total: the folios run
\* 1..total_pages with no gap or repeat and never exceed the total.
C23_FoliosMatchPages ==
    call \in {"build_pdf", "build_pdf again"} =>
        /\ Len(ret.pages) = ExpectedPages
        /\ \A k \in 1..Len(ret.pages) :
              /\ ret.pages[k].page_index = k
              /\ ret.pages[k].total_pages = ExpectedPages
              /\ ret.pages[k].page_index <= ret.pages[k].total_pages

\* a notes-only document of two slides: two pages, folios 1 and 2 of 2
C23_Witness ==
    /\ call = "build_pdf"
    /\ args.notes_only
    /\ ~args.cheatsheet_only
    /\ Len(args.plan.slides) = 2
    /\ Len(ret.pages) = 2
    /\ ret.pages[2].page_index = 2
    /\ ret.pages[2].total_pages = 2

\* ------------------------------------------------------------------------
\* Slide deck emitter: pptx_builder.py
\* ------------------------------------------------------------------------

\* Deck lengths are in hundredths of an inch: Inches(10) is 1000.

\* routers/slides.py list_device_presets: the canvas announced for each preset
list_device_presets ==
    [desktop |-> <<1333, 750>>, tablet |-> <<1000, 750>>, mobile |-> <<750, 1333>>]

DiagramType == {"process", "tree", "timeline", "compare"}

pick_layout(slide) == IF slide.diagram # None THEN slide.diagram ELSE "text"

\* the outcome of a build: the exception that ended it (None when it
\* returned) and the presentation as it stood at that point
raise_at(exc, line, prs) == [raised |-> exc, line |-> line, prs |-> prs]

\* the "for slide_item in plan.slides" loop from slide k on.  Every slide is
\* appended first; a diagram slide is drawn by its add_*_diagram helper, a
\* text slide calls get_point_icon(theme_key) with one argument where
\* icons.get_point_icon takes two, and then reads the unbound name
\* bullet_char.
RECURSIVE content_slides(_, _, _, _)
content_slides(plan, theme, k, prs) ==
    IF k > Len(plan.slides) THEN raise_at(None, 0, prs)
    ELSE LET slide_item == plan.slides[k]
             added == [prs EXCEPT !.slides = Append(@, slide_item.index)]
         IN IF pick_layout(slide_item) \in DiagramType
            THEN content_slides(plan, theme, k + 1, added)
            ELSE raise_at("TypeError: get_point_icon() missing index", 587, added)

build_pptx(plan, theme) ==
    LET prs == [slide_width |-> 1000, slide_height |-> 750, slides |-> <<>>]
        titled == [prs EXCEPT !.slides = <<"title">>]
    IN IF "margins_in" \notin DOMAIN theme
       THEN raise_at("KeyError: margins_in", 408, prs)
       ELSE IF "subtitle" \notin DOMAIN theme.sizes
       THEN raise_at("KeyError: subtitle", 464, titled)
       ELSE content_slides(plan, theme, 1, titled)

\* plans: every theme, every device preset or none, one or two slides of
\* any diagram kind or plain bullets
DeckSlides ==
    {<<[index |-> 0, diagram |-> d]>> : d \in DiagramType \cup {None}}
    \cup {<<[index |-> 0, diagram |-> d], [index |-> 1, diagram |-> e]>> :
             d \in DiagramType \cup {None}, e \in DiagramType \cup {None}}

DeckPlans ==
    [theme : ThemeNames, device_preset : DevicePresets \cup {None},
     slides : DeckSlides]

InitDeck ==
    /\ call = ""
    /\ args \in [plan : DeckPlans]
    /\ ret = None
    /\ NoFlow

\* export_pptx and build_deck_local: theme = get_theme(plan.theme), then
\* build_pptx(plan, theme)
CallBuildPptx ==
    /\ call = ""
    /\ call' = "build_pptx"
    /\ ret' = build_pptx(args.plan, get_theme(args.plan.theme))
    /\ UNCHANGED <<args, pc, i, y, drawn, prev>>

CallListDevicePresets ==
    /\ call = ""
    /\ call' = "list_device_presets"
    /\ ret' = list_device_presets
    /\ UNCHANGED <<args, pc, i, y, drawn, prev>>

NextDeck == CallBuildPptx \/ CallListDevicePresets

SpecDeck == InitDeck /\ [][NextDeck]_vars

\* C21: for every valid plan and the theme get_theme(plan.theme), build_pptx
\* returns without raising and the deck holds the title slide followed by
\* one slide per plan slide in plan order, whatever the slides' diagram kinds.
C21_DeckBuiltOneSlidePerPlanSlide ==
    call = "build_pptx" =>
        /\ ret.raised = None
        /\ Len(ret.prs.slides) = Len(args.plan.slides) + 1
        /\ ret.prs.slides[1] = "title"
        /\ \A k \in 1..Len(args.plan.slides) :
              ret.prs.slides[k + 1] = args.plan.slides[k].index

\* C22: the deck canvas is the one of the plan's device preset: desktop
\* 13.33 x 7.5 in, tablet 10 x 7.5 in, mobile 7.5 x 13.33 in.
C22_CanvasFollowsPreset ==
    (call = "build_pptx" /\ args.plan.device_preset \in DevicePresets) =>
        <<ret.prs.slide_width, ret.prs.slide_height>>
            = list_device_presets[args.plan.device_preset]

\* ------------------------------------------------------------------------
\* Enhanced notes pages: pdf_enhanced.draw_expanded_content
\* ------------------------------------------------------------------------

\* A flow is the cursor y and the drawing calls so far: [y, out].

\* pdf_enhanced._draw_paragraph_block: one drawString per wrapped line, the
\* cursor moving down by size * leading_mult (in thousandths) after each
RECURSIVE draw_lines(_, _, _, _, _)
draw_lines(flow, lines, x, leading, kind) ==
    IF lines = <<>> THEN flow
    ELSE draw_lines([y |-> flow.y - leading,
                     out |-> Append(flow.out, [kind |-> kind, x |-> x, y |-> flow.y,
                                               text |-> Head(lines)])],
                    Tail(lines), x, leading, kind)

_draw_paragraph_block(flow, text, x, w, font, size, leading_mult, kind) ==
    draw_lines(flow, _wrap_text(text, font, size, w), x, size * leading_mult, kind)

\* one pass of the loop of pdf_enhanced._draw_bullet_block with
\* leading_mult = 1.32, indent = 18, marker_size = 6 and gap = 6: a blank item
\* is skipped; the marker is a shape, the text is a paragraph block at
\* x + indent + marker_block_w, and max(4, size * 0.18) follows the item
_draw_bullet_block(flow, raw, x, w, font, size) ==
    LET text == strip(raw)
        marker_block_w == 6000 + 6000
        usable_w == Max(0, w - 18000 - marker_block_w)
        text_x == x + 18000 + marker_block_w
        block == _draw_paragraph_block(flow, text, text_x, usable_w, font, size,
                                       1320, "bullet")
    IN IF text = <<>> THEN flow
       ELSE [block EXCEPT !.y = @ - Max(4000, size * 180)]

\* a section heading: drawString at the cursor, then hdr_size * 1.2 down
draw_heading(flow, x, label, hdr_size) ==
    [y |-> flow.y - hdr_size * 1200,
     out |-> Append(flow.out, [kind |-> "heading", x |-> x, y |-> flow.y,
                               text |-> label])]

\* build_enhanced_pdf: where the flow of a slide page starts
enhanced_start_y(page_h, theme_eff, cf) ==
    LET sizes == get(theme_eff, "sizes", <<>>)
        safe_top == pt(get(get(theme_eff, "layout", <<>>), "safe_top", 48))
        h2_size == get(sizes, "h2", get(sizes, "title", 20))
        band_h == Max(48, IntOf(h2_size * 20, 10))
        band_top == page_h - safe_top \div 2
        band_gap == IntOf(h2_size * 9, 10)
    IN Min(cf.y + cf.h - pt(IntOf(h2_size * 6, 10)), band_top - pt(band_h + band_gap))

\* build_enhanced_pdf up to the call of draw_expanded_content, and the
\* locals draw_expanded_content reads from the scaled theme
enhanced_page(plan, theme) ==
    LET page == _choose_page_size(plan)
        theme_eff == _apply_scale_to_theme_enhanced(theme, _compute_scale_enhanced(page[1]))
        cf == _safe_frame(page[1], page[2], theme_eff)
        sizes == get(theme_eff, "sizes", <<>>)
    IN [page |-> page, frame |-> cf,
        start_y |-> enhanced_start_y(page[2], theme_eff, cf),
        body_font |-> get(get(theme_eff, "fonts", <<>>), "body", "Helvetica"),
        body_size |-> get(sizes, "body", 12),
        hdr_size |-> get(sizes, "h2", get(sizes, "title", 20))]

\* ------------------------------------------------------------------------
\* Specification of the enhanced notes pages
\* ------------------------------------------------------------------------

\* The page of the plan's slide is drawn step by step: pc is the section of
\* draw_expanded_content the flow is in, i the next item of its bullet list
\* (0 before the heading), y the cursor and drawn the text drawn so far.

MaxConcepts == 24

\* a paragraph of n sentences
RECURSIVE Narrative(_)
Narrative(n) ==
    IF n = 0 THEN <<>>
    ELSE IF n = 1 THEN PointArrays
    ELSE Narrative(n - 1) \o <<" ">> \o PointArrays

\* none, one sentence, two sentences
Narratives == {Narrative(n) : n \in {0, 1, 2}}
ConceptLists ==
    {[k \in 1..n |-> IF k % 2 = 1 THEN PointStacks ELSE PointQueues] :
        n \in {0, 2, 12, MaxConcepts}}
DetailLists == {<<>>, <<PointStacks, <<" ">>, PointQueues>>}

EnhancedSlides ==
    [expanded_content : Narratives, key_concepts : ConceptLists,
     supporting_details : DetailLists]

EnhancedPlans ==
    [device_preset : DevicePresets \cup {None}, orientation : {None},
     theme : ThemeNames, slides : {<<s>> : s \in EnhancedSlides}]

InitEnhanced ==
    /\ call = ""
    /\ args \in [plan : EnhancedPlans]
    /\ ret = None
    /\ pc = None /\ i = 0 /\ y = 0 /\ drawn = <<>> /\ prev = None

EnhancedSlide == args.plan.slides[1]

\* build_enhanced_pdf, lines 398-423: the slide page is set up and
\* draw_expanded_content starts at start_y
BeginSlidePage ==
    /\ call = ""
    /\ call' = "build_enhanced_pdf"
    /\ \E pg \in {enhanced_page(args.plan, get_theme(args.plan.theme))} :
          ret' = pg /\ y' = pg.start_y
    /\ pc' = "OVERVIEW"
    /\ UNCHANGED <<args, i, drawn, prev>>

\* section A: the heading, the paragraph block and the gap, when there is a
\* narrative
DrawOverview ==
    /\ pc = "OVERVIEW"
    /\ \E flow \in {IF EnhancedSlide.expanded_content = <<>>
                    THEN [y |-> y, out |-> drawn]
                    ELSE LET hd == draw_heading([y |-> y, out |-> drawn], ret.frame.x,
                                                <<"Overview">>, ret.hdr_size)
                             para == _draw_paragraph_block(
                                         hd, EnhancedSlide.expanded_content,
                                         ret.frame.x, ret.frame.w, ret.body_font,
                                         ret.body_size, 1350, "paragraph")
                         IN [para EXCEPT !.y = @ - Max(8000, ret.body_size * 300)]} :
          y' = flow.y /\ drawn' = flow.out
    /\ pc' = "CORE"
    /\ UNCHANGED <<call, args, ret, i, prev>>

SectionItems ==
    IF pc = "CORE" THEN EnhancedSlide.key_concepts ELSE EnhancedSlide.supporting_details
SectionLabel ==
    IF pc = "CORE" THEN <<"Core", " ", "Ideas">>
    ELSE <<"Examples", " ", "&", " ", "Pitfalls">>
NextSection == IF pc = "CORE" THEN "EXAMPLES" ELSE "DONE"

\* sections B and C: an empty list is skipped, otherwise the heading is drawn
BeginBullets ==
    /\ pc \in {"CORE", "EXAMPLES"} /\ i = 0
    /\ IF SectionItems = <<>>
       THEN pc' = NextSection /\ UNCHANGED <<i, y, drawn>>
       ELSE \E flow \in {draw_heading([y |-> y, out |-> drawn], ret.frame.x,
                                      SectionLabel, ret.hdr_size)} :
               y' = flow.y /\ drawn' = flow.out /\ i' = 1 /\ pc' = pc
    /\ UNCHANGED <<call, args, ret, prev>>

\* one item of the bullet list
DrawBulletItem ==
    /\ pc \in {"CORE", "EXAMPLES"} /\ i >= 1 /\ i <= Len(SectionItems)
    /\ \E flow \in {_draw_bullet_block([y |-> y, out |-> drawn], SectionItems[i],
                                       ret.frame.x, ret.frame.w, ret.body_font,
                                       ret.body_size)} :
          y' = flow.y /\ drawn' = flow.out
    /\ i' = i + 1
    /\ UNCHANGED <<call, args, ret, pc, prev>>

\* the list is exhausted: the gap below the section
EndBullets ==
    /\ pc \in {"CORE", "EXAMPLES"} /\ i > Len(SectionItems)
    /\ y' = y - Max(8000, ret.body_size * 300)
    /\ pc' = NextSection
    /\ i' = 0
    /\ UNCHANGED <<call, args, ret, drawn, prev>>

\* draw_expanded_content returns; build_enhanced_pdf draws the footer and
\* ends the page
ShowSlidePage ==
    /\ pc = "DONE"
    /\ pc' = "SHOWN"
    /\ UNCHANGED <<call, args, ret, i, y, drawn, prev>>

NextEnhanced ==
    \/ BeginSlidePage
    \/ DrawOverview
    \/ BeginBullets
    \/ DrawBulletItem
    \/ EndBullets
    \/ ShowSlidePage

SpecEnhanced == InitEnhanced /\ [][NextEnhanced]_vars

\* C24: on an expanded-notes page the flow stops once the cursor has passed
\* the bottom of the content frame: nothing is drawn after the cursor has
\* gone below the frame, so no heading, paragraph line or bullet line has
\* its baseline below the frame bottom (or below the page edge).
C24_FlowStopsAtFrameBottom ==
    call = "build_enhanced_pdf" =>
        \A k \in 1..Len(drawn) : drawn[k].y >= ret.frame.y /\ drawn[k].y >= 0

\* the page edge alone
C24_NothingBelowPageEdge ==
    call = "build_enhanced_pdf" => \A k \in 1..Len(drawn) : drawn[k].y >= 0

\* a page with at most one sentence and two items in each list stays inside
\* the frame
C24_ShortContentInsideFrame ==
    (call = "build_enhanced_pdf"
     /\ Len(EnhancedSlide.expanded_content) <= Len(PointArrays)
     /\ Len(EnhancedSlide.key_concepts) <= 2) =>
        \A k \in 1..Len(drawn) : drawn[k].y >= ret.frame.y

\* ------------------------------------------------------------------------
\* Dual content: text_utils.py and dual_content.py
\* ------------------------------------------------------------------------

\* Here a string is the sequence of its characters.

\* str.lower() on the characters the inputs are written with
lower_char(c) ==
    CASE c = "A" -> "a" [] c = "B" -> "b" [] c = "C" -> "c" [] c = "D" -> "d"
      [] c = "E" -> "e" [] c = "P" -> "p" [] OTHER -> c

\* string.punctuation without "-" and "'" (text_utils.py line 21)
Punctuation == {".", ",", "?", "!", "/", ":", ";", "(", ")", "&"}

\* the characters of s at the positions P, in order
pick(s, P) ==
    IF P = 1..Len(s) THEN s
    ELSE [j \in 1..Cardinality(P) |->
             s[CHOOSE p \in P : Cardinality({q \in P : q <= p}) = j]]

\* re.sub(r'\s+', ' ', s): of a run of spaces only the first stays
collapse_spaces(s) ==
    pick(s, {k \in 1..Len(s) : ~(s[k] = " " /\ k > 1 /\ s[k - 1] = " ")})

\* text_utils.normalize_sentence: lower and strip, then drop punctuation,
\* then collapse the runs of spaces
normalize_sentence(s) ==
    LET lowered == strip([k \in 1..Len(s) |-> lower_char(s[k])])
        kept == SelectSeq(lowered, LAMBDA c : c \notin Punctuation)
    IN collapse_spaces(kept)

\* dual_content._norm: lower, drop everything but word characters and
\* spaces, collapse the runs of spaces, strip
_norm(s) ==
    LET lowered == [k \in 1..Len(s) |-> lower_char(s[k])]
        kept == SelectSeq(lowered, LAMBDA c : c \notin Punctuation \cup {"-", "'"})
    IN strip(collapse_spaces(kept))

\* difflib.SequenceMatcher(None, a, b): the number of matched characters in
\* a[alo..ahi-1] and b[blo..bhi-1].  find_longest_match returns the longest
\* common block, the earliest in a and then in b among the longest; the
\* pieces left and right of it are matched in the same way.  (No junk:
\* isjunk is None and autojunk needs 200 characters.)
RECURSIVE matches(_, _, _, _, _, _)
matches(a, alo, ahi, b, blo, bhi) ==
    LET blocks == {t \in (alo..(ahi - 1)) \X (blo..(bhi - 1)) \X (1..Min(ahi - alo, bhi - blo)) :
                      /\ t[1] + t[3] <= ahi
                      /\ t[2] + t[3] <= bhi
                      /\ \A d \in 0..(t[3] - 1) : a[t[1] + d] = b[t[2] + d]}
        best == CHOOSE t \in blocks :
                    \A u \in blocks :
                        \/ t[3] > u[3]
                        \/ t[3] = u[3] /\ t[1] < u[1]
                        \/ t[3] = u[3] /\ t[1] = u[1] /\ t[2] <= u[2]
    IN IF blocks = {} THEN 0
       ELSE best[3] + matches(a, alo, best[1], b, blo, best[2])
                    + matches(a, best[1] + best[3], ahi, b, best[2] + best[3], bhi)

\* SequenceMatcher.ratio() >= 0.9, ratio = 2 * matches / (len(a) + len(b)) and
\* 1.0 for two empty strings
ratio_at_least_09(a, b) ==
    \/ Len(a) + Len(b) = 0
    \/ 20 * matches(a, 1, Len(a) + 1, b, 1, Len(b) + 1) >= 9 * (Len(a) + Len(b))

\* text_utils.is_near_duplicate with threshold 0.9
is_near_duplicate(a, b) == ratio_at_least_09(normalize_sentence(a), normalize_sentence(b))

\* dual_content._is_near_dup
_is_near_dup(a, b) == ratio_at_least_09(_norm(a), _norm(b))

\* the pieces of s between the separator positions seps
pieces(s, seps) ==
    LET bounds == {0} \cup seps \cup {Len(s) + 1}
    IN {SubSeq(s, lo + 1, (CHOOSE hi \in bounds : hi > lo /\ \A m \in bounds : m > lo => hi <= m) - 1) :
           lo \in bounds \ {Len(s) + 1}}

take_first(s, n) == SubSeq(s, 1, Min(n, Len(s)))

\* the filter loop of text_utils.deduplicate_content: an item is kept when it
\* is no near duplicate of a seen sentence and is at most 160 characters
\* long; a kept item becomes a seen sentence
RECURSIVE filter_items(_, _, _)
filter_items(items, kept, seen) ==
    IF items = <<>> THEN [kept |-> kept, seen |-> seen]
    ELSE LET item == Head(items)
             normalized == normalize_sentence(item)
             is_duplicate == \E s \in seen : is_near_duplicate(normalized, s)
         IN IF ~is_duplicate /\ Len(item) <= 160
            THEN filter_items(Tail(items), Append(kept, item), seen \cup {normalized})
            ELSE filter_items(Tail(items), kept, seen)

\* text_utils.deduplicate_content.  With fewer than three items kept,
\* filtered.extend(...)[:3] subscripts the None that list.extend returns.
deduplicate_content(narrative, key_concepts, supporting_details) ==
    LET sentences == pieces(narrative, {k \in 1..Len(narrative) :
                                           narrative[k] \in {".", "!", "?"}})
        seen_sentences == {normalize_sentence(s) : s \in {t \in sentences : strip(t) # <<>>}}
        concepts == filter_items(key_concepts, <<>>, seen_sentences)
        details == filter_items(supporting_details, <<>>, concepts.seen)
    IN IF Len(take_first(concepts.kept, 6)) < 3 \/ Len(take_first(details.kept, 6)) < 3
       THEN [raised |-> "TypeError: 'NoneType' object is not subscriptable"]
       ELSE [raised |-> None, narrative |-> narrative,
             key_concepts |-> take_first(concepts.kept, 6),
             supporting_details |-> take_first(details.kept, 6)]

\* _filter of the deduplicate_content that dual_content defines when
\* text_utils cannot be imported: blank items are skipped, an item is kept
\* when it is no near duplicate of a narrative chunk nor of a kept item
RECURSIVE _filter(_, _, _)
_filter(items, out, seen_units) ==
    IF items = <<>> THEN out
    ELSE LET it == Head(items)
             keep == /\ strip(it) # <<>>
                     /\ \A s \in seen_units : ~_is_near_dup(it, s)
                     /\ \A k \in 1..Len(out) : ~_is_near_dup(it, out[k])
         IN _filter(Tail(items), IF keep THEN Append(out, strip(it)) ELSE out, seen_units)

\* dual_content.deduplicate_content (lines 27-65): the chunks are the pieces
\* between the matches of [.!?]\s+
deduplicate_content_builtin(narrative, key_concepts, supporting_details) ==
    LET chunks == pieces(narrative, {k \in 1..(Len(narrative) - 1) :
                                        /\ narrative[k] \in {".", "!", "?"}
                                        /\ narrative[k + 1] = " "})
        seen_units == {strip(c) : c \in {t \in chunks : strip(t) # <<>>}}
    IN [raised |-> None, narrative |-> narrative,
        key_concepts |-> _filter(key_concepts, <<>>, seen_units),
        supporting_details |-> _filter(supporting_details, <<>>, seen_units)]

ExampleFor ==
    <<"E", "x", "a", "m", "p", "l", "e", "/", "a", "n", "a", "l", "o", "g", "y", " ",
      "f", "o", "r", ":", " ">>
PitfallFor ==
    <<"P", "i", "t", "f", "a", "l", "l", " ", "r", "e", "l", "a", "t", "e", "d", " ",
      "t", "o", ":", " ">>

\* the except branch of generate_dual_content
fallback_content(topic, title, points) ==
    LET pts == SelectSeq(points, LAMBDA p : p # <<>>)
    IN [expanded_content |-> IF pts # <<>> THEN take_first(join(pts), 800)
                             ELSE title \o <<" ", "<em dash>", " ">> \o topic,
        key_concepts |-> take_first(pts, 3),
        supporting_details |-> IF Len(pts) >= 2
                               THEN <<ExampleFor \o pts[1], PitfallFor \o pts[Len(pts)]>>
                               ELSE <<>>,
        path |-> "fallback"]

\* DualContentGenerator.generate_dual_content.  response is what the model
\* call and the JSON parsing yield: ok is false when either raises or a field
\* is missing, otherwise the parsed object follows.  text_utils tells whether
\* "from .text_utils import deduplicate_content" succeeded (line 21 of
\* text_utils.py nests a quote of the f-string's own kind, which only
\* Python 3.12 and later parse).
generate_dual_content(text_utils, response, topic, title, points) ==
    IF ~response.ok THEN fallback_content(topic, title, points)
    ELSE LET narrative == join(response.expanded_content)
             dedup == IF text_utils
                      THEN deduplicate_content(narrative, response.key_concepts,
                                               response.supporting_details)
                      ELSE deduplicate_content_builtin(narrative, response.key_concepts,
                                                       response.supporting_details)
         IN IF dedup.raised # None THEN fallback_content(topic, title, points)
            ELSE [expanded_content |-> strip(dedup.narrative),
                  key_concepts |-> take_first(dedup.key_concepts, 6),
                  supporting_details |-> take_first(dedup.supporting_details, 6),
                  path |-> "model"]

\* validate_content: the normalized sentences of the narrative
narrative_sentences(narrative) ==
    {normalize_sentence(strip(s)) :
        s \in {t \in pieces(narrative, {k \in 1..Len(narrative) : narrative[k] = "."}) :
                  strip(t) # <<>>}}

\* ------------------------------------------------------------------------
\* Specification of the dual content generator
\* ------------------------------------------------------------------------

Ab == <<"a", "b">>
AbDot == <<"A", "b", ".">>
ABBang == <<"A", "B", "!">>
Cd == <<"c", "d">>
CdDot == <<"C", "d", ".">>
AbCd == <<"a", "b", " ", "c", "d">>
Pq == <<"p", "q">>
Rs == <<"r", "s">>
Tu == <<"t", "u">>
Vw == <<"v", "w">>
XDashY == <<"x", "-", "y">>
\* an item of 161 characters
LongItem == [k \in 1..161 |-> "x"]

\* "Ab. Cd." in one paragraph and in two, "Ab? Cd."
ParagraphLists ==
    {<<AbDot \o <<" ">> \o CdDot>>, <<AbDot, CdDot>>,
     <<<<"A", "b", "?", " ">> \o CdDot>>}

ConceptItems == {Ab, ABBang, AbCd, Pq, XDashY}
ConceptLists3 ==
    {<<a, b, c>> : a \in ConceptItems, b \in ConceptItems, c \in ConceptItems}
    \cup {<<Pq, XDashY, LongItem>>, <<Pq, XDashY, Rs, LongItem>>, <<Pq>>, <<>>}
DetailLists3 == {<<Rs, Tu, Vw>>, <<Cd, Rs, Tu, Vw>>, <<Rs, <<" ">>, Pq>>}

Responses ==
    {[ok |-> FALSE]}
    \cup [ok : {TRUE}, expanded_content : ParagraphLists, key_concepts : ConceptLists3,
          supporting_details : DetailLists3]

PointLists == {<<Ab>>, <<Ab, Cd>>, <<AbDot, CdDot>>, <<LongItem, Ab>>, <<<<>>>>}

InitDual ==
    /\ call = ""
    /\ args \in [text_utils : BOOLEAN, response : Responses, points : PointLists,
                 topic : {Pq}, title : {Rs}]
    /\ ret = None
    /\ NoFlow

CallGenerateDualContent ==
    /\ call = ""
    /\ call' = "generate_dual_content"
    /\ ret' = generate_dual_content(args.text_utils, args.response, args.topic,
                                    args.title, args.points)
    /\ UNCHANGED <<args, pc, i, y, drawn, prev>>

\* text_utils.deduplicate_content called on the parsed object
CallDeduplicateContent ==
    /\ call = ""
    /\ args.text_utils /\ args.response.ok
    /\ call' = "deduplicate_content"
    /\ ret' = deduplicate_content(join(args.response.expanded_content),
                                  args.response.key_concepts,
                                  args.response.supporting_details)
    /\ UNCHANGED <<args, pc, i, y, drawn, prev>>

NextDual == CallGenerateDualContent \/ CallDeduplicateContent

SpecDual == InitDual /\ [][NextDual]_vars

\* an item neither repeats a sentence of the narrative nor exceeds 160
\* characters
ItemValid(item, narrative) ==
    /\ normalize_sentence(item) \notin narrative_sentences(narrative)
    /\ Len(item) <= 160

ContentValid(content) ==
    /\ \A k \in 1..Len(content.key_concepts) :
          ItemValid(content.key_concepts[k], content.expanded_content)
    /\ \A k \in 1..Len(content.supporting_details) :
          ItemValid(content.supporting_details[k], content.expanded_content)

\* C26: in every result of generate_dual_content, from the model path or
\* from the fallback path, no key concept and no supporting detail
\* normalizes to a sentence of the returned expanded_content, and each is at
\* most 160 characters long.
C26_NoDuplicateNoLongItem ==
    call = "generate_dual_content" => ContentValid(ret)

\* the same for the results of the model path alone
C26_ModelPathValid ==
    (call = "generate_dual_content" /\ ret.path = "model") => ContentValid(ret)

\* the model path with text_utils imported
C26_TextUtilsPathValid ==
    (call = "generate_dual_content" /\ ret.path = "model" /\ args.text_utils)
        => ContentValid(ret)

\* the fallback path alone
C26_FallbackValid ==
    (call = "generate_dual_content" /\ ret.path = "fallback") => ContentValid(ret)
====
